---- MODULE Spec2Model ----
(***************************************************************************)
(* A model of doc_analyzer's deterministic rule engine                     *)
(* (src/src/doc_analyzer/analyzers/rule_checker.py).                       *)
(*                                                                         *)
(* A Python str is modelled as a sequence of characters.  A printable ASCII *)
(* character, a tab, a newline and a carriage return are one-character     *)
(* TLA+ strings; every other code point (and the grave accent) is written  *)
(* by its name, "U+" and its code in four to six upper-case hexadecimal    *)
(* digits: "U+201C", "U+000C".  chr(n) is the character of code point n.   *)
(* S(lit) turns an ASCII literal into such a sequence.                     *)
(* Offsets are Python's: 0-based, slices half open.                        *)
(***************************************************************************)
EXTENDS Integers, Sequences, FiniteSets, TLC

VARIABLES
    disabled_rules,  \* RuleChecker.disabled_rules, a set of rule ids
    ctor,            \* history: the argument __init__ was given
    earlier,         \* history: a call on this checker has returned before
    pc,              \* "idle", "running" (inside check_all) or "returned"
    op,              \* the method the last call ran
    idx,             \* position in check_all's catalogue while "running"
    text,            \* the text argument of the last call
    matches,         \* the list the last call returned (or has built so far)
    args,            \* the other arguments of the last call, and what the
                     \* services it called (extractor, LLM provider) answered
    outcome,         \* what the last call returned or raised, when that is
                     \* not a list of matches
    calls            \* the calls of analyze_url and analyze_transcript under
                     \* way: for each caller, where its call waits and what
                     \* the call has done so far

vars == <<disabled_rules, ctor, earlier, pc, op, idx, text, matches, args, outcome, calls>>

----------------------------------------------------------------------------
(* Characters and strings *)

\* the characters of an ASCII literal from its i-th on
SFrom(lit, i) == [k \in 1..(Len(lit) - i + 1) |-> SubSeq(lit, i + k - 1, i + k - 1)]

\* the characters of an ASCII literal
S(lit) == SFrom(lit, 1)

NL == "\n"
TAB == "\t"
CR == "\r"
SP == " "
DQ == "\""
SQ == "'"
LDQ == "U+201C"
RDQ == "U+201D"
LSQ == "U+2018"
RSQ == "U+2019"
ZWSP == "U+200B"
ZWNJ == "U+200C"
ZWJ == "U+200D"
BOM == "U+FEFF"
NBSP == "U+00A0"
WJ == "U+2060"
EMDASH == "U+2014"
\* the grave accent, which a TLA+ string literal cannot hold
BQ == "U+0060"

LowerLetters == S("abcdefghijklmnopqrstuvwxyz")
UpperLetters == S("ABCDEFGHIJKLMNOPQRSTUVWXYZ")
\* the decimal digits that str(n) writes and that a JSON number is made of
Digits == S("0123456789")

Range(f) == {f[i] : i \in DOMAIN f}

\* the characters of code points 32 to 126
Ascii == S(" !\"#$%&'()*+,-./0123456789:;<=>?@ABCDEFGHIJKLMNOPQRSTUVWXYZ[\\]^_")
                 \o <<BQ>> \o S("abcdefghijklmnopqrstuvwxyz{|}~")

HexDigits == S("0123456789ABCDEF")

\* the hexadecimal digit of n at the place of value k
HexDigit(n, k) == HexDigits[((n \div k) % 16) + 1]

\* the code of a code point in four to six hexadecimal digits
Hex(n) ==
    (IF n >= 1048576 THEN HexDigit(n, 1048576) ELSE "")
        \o (IF n >= 65536 THEN HexDigit(n, 65536) ELSE "")
        \o HexDigit(n, 4096) \o HexDigit(n, 256) \o HexDigit(n, 16) \o HexDigit(n, 1)

\* chr(n): the character of code point n
chr(n) ==
    IF n \in 32..126 THEN Ascii[n - 31]
    ELSE IF n = 9 THEN TAB
    ELSE IF n = 10 THEN NL
    ELSE IF n = 13 THEN CR
    ELSE "U+" \o Hex(n)

\* the code points of a table of <<first, last>> ranges, and their characters
Codes(ranges) == UNION {r[1]..r[2] : r \in Range(ranges)}

Chars(ranges) == {chr(n) : n \in Codes(ranges)}

\* the value of a run of hexadecimal digits
HexValue(digits) ==
    LET value(d) == CHOOSE v \in 0..15 : HexDigits[v + 1] = d \/ S("0123456789abcdef")[v + 1] = d
        sum[k \in 0..Len(digits)] == IF k = 0 THEN 0 ELSE 16 * sum[k - 1] + value(digits[k])
    IN  sum[Len(digits)]

\* ord(c): the code point of character c
ord(c) ==
    IF c = TAB THEN 9
    ELSE IF c = NL THEN 10
    ELSE IF c = CR THEN 13
    ELSE IF Len(c) = 1 THEN 31 + (CHOOSE i \in DOMAIN Ascii : Ascii[i] = c)
    ELSE HexValue(SFrom(c, 3))

Letters == Range(LowerLetters) \cup Range(UpperLetters)

\* [A-Za-z]
IsLetter(c) == c \in Letters

DecimalDigits == Range(Digits)

\* The classes below are those of the Unicode database of the interpreter
\* (Python 3.11, Unicode 14.0), as ranges of code points.  A table lists its
\* numbers one entry after the other.

\* a table of entries first, last as the tuples <<first, last>>
Ranges(table) == [i \in 1..(Len(table) \div 2) |-> <<table[2 * i - 1], table[2 * i]>>]

\* a table of entries first, count, step, delta as the tuples of the four
Runs(table) ==
    [i \in 1..(Len(table) \div 4) |->
        <<table[4 * i - 3], table[4 * i - 2], table[4 * i - 1], table[4 * i]>>]

\* the code points c with chr(c).isdigit()
DigitRanges ==
    Ranges(<<48, 57,  178, 179,  185, 185,  1632, 1641,  1776, 1785,  1984, 1993,
             2406, 2415,  2534, 2543,  2662, 2671,  2790, 2799,  2918, 2927,  3046, 3055,
             3174, 3183,  3302, 3311,  3430, 3439,  3558, 3567,  3664, 3673,  3792, 3801,
             3872, 3881,  4160, 4169,  4240, 4249,  4969, 4977,  6112, 6121,  6160, 6169,
             6470, 6479,  6608, 6618,  6784, 6793,  6800, 6809,  6992, 7001,  7088, 7097,
             7232, 7241,  7248, 7257,  8304, 8304,  8308, 8313,  8320, 8329,  9312, 9320,
             9332, 9340,  9352, 9360,  9450, 9450,  9461, 9469,  9471, 9471,  10102, 10110,
             10112, 10120,  10122, 10130,  42528, 42537,  43216, 43225,  43264, 43273,  43472, 43481,
             43504, 43513,  43600, 43609,  44016, 44025,  65296, 65305,  66720, 66729,  68160, 68163,
             68912, 68921,  69216, 69224,  69714, 69722,  69734, 69743,  69872, 69881,  69942, 69951,
             70096, 70105,  70384, 70393,  70736, 70745,  70864, 70873,  71248, 71257,  71360, 71369,
             71472, 71481,  71904, 71913,  72016, 72025,  72784, 72793,  73040, 73049,  73120, 73129,
             92768, 92777,  92864, 92873,  93008, 93017,  120782, 120831,  123200, 123209,  123632, 123641,
             125264, 125273,  127232, 127242,  130032, 130041>>)

DigitSet == Chars(DigitRanges)

\* str.isdigit
IsDigit(c) == c \in DigitSet

\* the code points that \w matches in a str pattern: the alphanumeric ones
\* (str.isalnum) and the underscore
WordRanges ==
    Ranges(<<48, 57,  65, 90,  95, 95,  97, 122,  170, 170,  178, 179,
             181, 181,  185, 186,  188, 190,  192, 214,  216, 246,  248, 705,
             710, 721,  736, 740,  748, 748,  750, 750,  880, 884,  886, 887,
             890, 893,  895, 895,  902, 902,  904, 906,  908, 908,  910, 929,
             931, 1013,  1015, 1153,  1162, 1327,  1329, 1366,  1369, 1369,  1376, 1416,
             1488, 1514,  1519, 1522,  1568, 1610,  1632, 1641,  1646, 1647,  1649, 1747,
             1749, 1749,  1765, 1766,  1774, 1788,  1791, 1791,  1808, 1808,  1810, 1839,
             1869, 1957,  1969, 1969,  1984, 2026,  2036, 2037,  2042, 2042,  2048, 2069,
             2074, 2074,  2084, 2084,  2088, 2088,  2112, 2136,  2144, 2154,  2160, 2183,
             2185, 2190,  2208, 2249,  2308, 2361,  2365, 2365,  2384, 2384,  2392, 2401,
             2406, 2415,  2417, 2432,  2437, 2444,  2447, 2448,  2451, 2472,  2474, 2480,
             2482, 2482,  2486, 2489,  2493, 2493,  2510, 2510,  2524, 2525,  2527, 2529,
             2534, 2545,  2548, 2553,  2556, 2556,  2565, 2570,  2575, 2576,  2579, 2600,
             2602, 2608,  2610, 2611,  2613, 2614,  2616, 2617,  2649, 2652,  2654, 2654,
             2662, 2671,  2674, 2676,  2693, 2701,  2703, 2705,  2707, 2728,  2730, 2736,
             2738, 2739,  2741, 2745,  2749, 2749,  2768, 2768,  2784, 2785,  2790, 2799,
             2809, 2809,  2821, 2828,  2831, 2832,  2835, 2856,  2858, 2864,  2866, 2867,
             2869, 2873,  2877, 2877,  2908, 2909,  2911, 2913,  2918, 2927,  2929, 2935,
             2947, 2947,  2949, 2954,  2958, 2960,  2962, 2965,  2969, 2970,  2972, 2972,
             2974, 2975,  2979, 2980,  2984, 2986,  2990, 3001,  3024, 3024,  3046, 3058,
             3077, 3084,  3086, 3088,  3090, 3112,  3114, 3129,  3133, 3133,  3160, 3162,
             3165, 3165,  3168, 3169,  3174, 3183,  3192, 3198,  3200, 3200,  3205, 3212,
             3214, 3216,  3218, 3240,  3242, 3251,  3253, 3257,  3261, 3261,  3293, 3294,
             3296, 3297,  3302, 3311,  3313, 3314,  3332, 3340,  3342, 3344,  3346, 3386,
             3389, 3389,  3406, 3406,  3412, 3414,  3416, 3425,  3430, 3448,  3450, 3455,
             3461, 3478,  3482, 3505,  3507, 3515,  3517, 3517,  3520, 3526,  3558, 3567,
             3585, 3632,  3634, 3635,  3648, 3654,  3664, 3673,  3713, 3714,  3716, 3716,
             3718, 3722,  3724, 3747,  3749, 3749,  3751, 3760,  3762, 3763,  3773, 3773,
             3776, 3780,  3782, 3782,  3792, 3801,  3804, 3807,  3840, 3840,  3872, 3891,
             3904, 3911,  3913, 3948,  3976, 3980,  4096, 4138,  4159, 4169,  4176, 4181,
             4186, 4189,  4193, 4193,  4197, 4198,  4206, 4208,  4213, 4225,  4238, 4238,
             4240, 4249,  4256, 4293,  4295, 4295,  4301, 4301,  4304, 4346,  4348, 4680,
             4682, 4685,  4688, 4694,  4696, 4696,  4698, 4701,  4704, 4744,  4746, 4749,
             4752, 4784,  4786, 4789,  4792, 4798,  4800, 4800,  4802, 4805,  4808, 4822,
             4824, 4880,  4882, 4885,  4888, 4954,  4969, 4988,  4992, 5007,  5024, 5109,
             5112, 5117,  5121, 5740,  5743, 5759,  5761, 5786,  5792, 5866,  5870, 5880,
             5888, 5905,  5919, 5937,  5952, 5969,  5984, 5996,  5998, 6000,  6016, 6067,
             6103, 6103,  6108, 6108,  6112, 6121,  6128, 6137,  6160, 6169,  6176, 6264,
             6272, 6276,  6279, 6312,  6314, 6314,  6320, 6389,  6400, 6430,  6470, 6509,
             6512, 6516,  6528, 6571,  6576, 6601,  6608, 6618,  6656, 6678,  6688, 6740,
             6784, 6793,  6800, 6809,  6823, 6823,  6917, 6963,  6981, 6988,  6992, 7001,
             7043, 7072,  7086, 7141,  7168, 7203,  7232, 7241,  7245, 7293,  7296, 7304,
             7312, 7354,  7357, 7359,  7401, 7404,  7406, 7411,  7413, 7414,  7418, 7418,
             7424, 7615,  7680, 7957,  7960, 7965,  7968, 8005,  8008, 8013,  8016, 8023,
             8025, 8025,  8027, 8027,  8029, 8029,  8031, 8061,  8064, 8116,  8118, 8124,
             8126, 8126,  8130, 8132,  8134, 8140,  8144, 8147,  8150, 8155,  8160, 8172,
             8178, 8180,  8182, 8188,  8304, 8305,  8308, 8313,  8319, 8329,  8336, 8348,
             8450, 8450,  8455, 8455,  8458, 8467,  8469, 8469,  8473, 8477,  8484, 8484,
             8486, 8486,  8488, 8488,  8490, 8493,  8495, 8505,  8508, 8511,  8517, 8521,
             8526, 8526,  8528, 8585,  9312, 9371,  9450, 9471,  10102, 10131,  11264, 11492,
             11499, 11502,  11506, 11507,  11517, 11517,  11520, 11557,  11559, 11559,  11565, 11565,
             11568, 11623,  11631, 11631,  11648, 11670,  11680, 11686,  11688, 11694,  11696, 11702,
             11704, 11710,  11712, 11718,  11720, 11726,  11728, 11734,  11736, 11742,  11823, 11823,
             12293, 12295,  12321, 12329,  12337, 12341,  12344, 12348,  12353, 12438,  12445, 12447,
             12449, 12538,  12540, 12543,  12549, 12591,  12593, 12686,  12690, 12693,  12704, 12735,
             12784, 12799,  12832, 12841,  12872, 12879,  12881, 12895,  12928, 12937,  12977, 12991,
             13312, 19903,  19968, 42124,  42192, 42237,  42240, 42508,  42512, 42539,  42560, 42606,
             42623, 42653,  42656, 42735,  42775, 42783,  42786, 42888,  42891, 42954,  42960, 42961,
             42963, 42963,  42965, 42969,  42994, 43009,  43011, 43013,  43015, 43018,  43020, 43042,
             43056, 43061,  43072, 43123,  43138, 43187,  43216, 43225,  43250, 43255,  43259, 43259,
             43261, 43262,  43264, 43301,  43312, 43334,  43360, 43388,  43396, 43442,  43471, 43481,
             43488, 43492,  43494, 43518,  43520, 43560,  43584, 43586,  43588, 43595,  43600, 43609,
             43616, 43638,  43642, 43642,  43646, 43695,  43697, 43697,  43701, 43702,  43705, 43709,
             43712, 43712,  43714, 43714,  43739, 43741,  43744, 43754,  43762, 43764,  43777, 43782,
             43785, 43790,  43793, 43798,  43808, 43814,  43816, 43822,  43824, 43866,  43868, 43881,
             43888, 44002,  44016, 44025,  44032, 55203,  55216, 55238,  55243, 55291,  63744, 64109,
             64112, 64217,  64256, 64262,  64275, 64279,  64285, 64285,  64287, 64296,  64298, 64310,
             64312, 64316,  64318, 64318,  64320, 64321,  64323, 64324,  64326, 64433,  64467, 64829,
             64848, 64911,  64914, 64967,  65008, 65019,  65136, 65140,  65142, 65276,  65296, 65305,
             65313, 65338,  65345, 65370,  65382, 65470,  65474, 65479,  65482, 65487,  65490, 65495,
             65498, 65500,  65536, 65547,  65549, 65574,  65576, 65594,  65596, 65597,  65599, 65613,
             65616, 65629,  65664, 65786,  65799, 65843,  65856, 65912,  65930, 65931,  66176, 66204,
             66208, 66256,  66273, 66299,  66304, 66339,  66349, 66378,  66384, 66421,  66432, 66461,
             66464, 66499,  66504, 66511,  66513, 66517,  66560, 66717,  66720, 66729,  66736, 66771,
             66776, 66811,  66816, 66855,  66864, 66915,  66928, 66938,  66940, 66954,  66956, 66962,
             66964, 66965,  66967, 66977,  66979, 66993,  66995, 67001,  67003, 67004,  67072, 67382,
             67392, 67413,  67424, 67431,  67456, 67461,  67463, 67504,  67506, 67514,  67584, 67589,
             67592, 67592,  67594, 67637,  67639, 67640,  67644, 67644,  67647, 67669,  67672, 67702,
             67705, 67742,  67751, 67759,  67808, 67826,  67828, 67829,  67835, 67867,  67872, 67897,
             67968, 68023,  68028, 68047,  68050, 68096,  68112, 68115,  68117, 68119,  68121, 68149,
             68160, 68168,  68192, 68222,  68224, 68255,  68288, 68295,  68297, 68324,  68331, 68335,
             68352, 68405,  68416, 68437,  68440, 68466,  68472, 68497,  68521, 68527,  68608, 68680,
             68736, 68786,  68800, 68850,  68858, 68899,  68912, 68921,  69216, 69246,  69248, 69289,
             69296, 69297,  69376, 69415,  69424, 69445,  69457, 69460,  69488, 69505,  69552, 69579,
             69600, 69622,  69635, 69687,  69714, 69743,  69745, 69746,  69749, 69749,  69763, 69807,
             69840, 69864,  69872, 69881,  69891, 69926,  69942, 69951,  69956, 69956,  69959, 69959,
             69968, 70002,  70006, 70006,  70019, 70066,  70081, 70084,  70096, 70106,  70108, 70108,
             70113, 70132,  70144, 70161,  70163, 70187,  70272, 70278,  70280, 70280,  70282, 70285,
             70287, 70301,  70303, 70312,  70320, 70366,  70384, 70393,  70405, 70412,  70415, 70416,
             70419, 70440,  70442, 70448,  70450, 70451,  70453, 70457,  70461, 70461,  70480, 70480,
             70493, 70497,  70656, 70708,  70727, 70730,  70736, 70745,  70751, 70753,  70784, 70831,
             70852, 70853,  70855, 70855,  70864, 70873,  71040, 71086,  71128, 71131,  71168, 71215,
             71236, 71236,  71248, 71257,  71296, 71338,  71352, 71352,  71360, 71369,  71424, 71450,
             71472, 71483,  71488, 71494,  71680, 71723,  71840, 71922,  71935, 71942,  71945, 71945,
             71948, 71955,  71957, 71958,  71960, 71983,  71999, 71999,  72001, 72001,  72016, 72025,
             72096, 72103,  72106, 72144,  72161, 72161,  72163, 72163,  72192, 72192,  72203, 72242,
             72250, 72250,  72272, 72272,  72284, 72329,  72349, 72349,  72368, 72440,  72704, 72712,
             72714, 72750,  72768, 72768,  72784, 72812,  72818, 72847,  72960, 72966,  72968, 72969,
             72971, 73008,  73030, 73030,  73040, 73049,  73056, 73061,  73063, 73064,  73066, 73097,
             73112, 73112,  73120, 73129,  73440, 73458,  73648, 73648,  73664, 73684,  73728, 74649,
             74752, 74862,  74880, 75075,  77712, 77808,  77824, 78894,  82944, 83526,  92160, 92728,
             92736, 92766,  92768, 92777,  92784, 92862,  92864, 92873,  92880, 92909,  92928, 92975,
             92992, 92995,  93008, 93017,  93019, 93025,  93027, 93047,  93053, 93071,  93760, 93846,
             93952, 94026,  94032, 94032,  94099, 94111,  94176, 94177,  94179, 94179,  94208, 100343,
             100352, 101589,  101632, 101640,  110576, 110579,  110581, 110587,  110589, 110590,  110592, 110882,
             110928, 110930,  110948, 110951,  110960, 111355,  113664, 113770,  113776, 113788,  113792, 113800,
             113808, 113817,  119520, 119539,  119648, 119672,  119808, 119892,  119894, 119964,  119966, 119967,
             119970, 119970,  119973, 119974,  119977, 119980,  119982, 119993,  119995, 119995,  119997, 120003,
             120005, 120069,  120071, 120074,  120077, 120084,  120086, 120092,  120094, 120121,  120123, 120126,
             120128, 120132,  120134, 120134,  120138, 120144,  120146, 120485,  120488, 120512,  120514, 120538,
             120540, 120570,  120572, 120596,  120598, 120628,  120630, 120654,  120656, 120686,  120688, 120712,
             120714, 120744,  120746, 120770,  120772, 120779,  120782, 120831,  122624, 122654,  123136, 123180,
             123191, 123197,  123200, 123209,  123214, 123214,  123536, 123565,  123584, 123627,  123632, 123641,
             124896, 124902,  124904, 124907,  124909, 124910,  124912, 124926,  124928, 125124,  125127, 125135,
             125184, 125251,  125259, 125259,  125264, 125273,  126065, 126123,  126125, 126127,  126129, 126132,
             126209, 126253,  126255, 126269,  126464, 126467,  126469, 126495,  126497, 126498,  126500, 126500,
             126503, 126503,  126505, 126514,  126516, 126519,  126521, 126521,  126523, 126523,  126530, 126530,
             126535, 126535,  126537, 126537,  126539, 126539,  126541, 126543,  126545, 126546,  126548, 126548,
             126551, 126551,  126553, 126553,  126555, 126555,  126557, 126557,  126559, 126559,  126561, 126562,
             126564, 126564,  126567, 126570,  126572, 126578,  126580, 126583,  126585, 126588,  126590, 126590,
             126592, 126601,  126603, 126619,  126625, 126627,  126629, 126633,  126635, 126651,  127232, 127244,
             130032, 130041,  131072, 173791,  173824, 177976,  177984, 178205,  178208, 183969,  183984, 191456,
             194560, 195101,  196608, 201546>>)

\* \w
WordChars == Chars(WordRanges)

IsWord(c) == c \in WordChars

\* the code points that \s matches in a str pattern, which are those of
\* str.isspace
SpaceRanges ==
    Ranges(<<9, 13,  28, 32,  133, 133,  160, 160,  5760, 5760,  8192, 8202,
             8232, 8233,  8239, 8239,  8287, 8287,  12288, 12288>>)

Whitespace == Chars(SpaceRanges)

\* \s, str.isspace
IsSpace(c) == c \in Whitespace

Punctuation == {".", ",", ";", ":", "!", "?"}

\* [.,;:!?]
IsPunct(c) == c \in Punctuation

\* The lowercase mapping of the code points that have one, as runs
\* <<first, count, step, delta>>: code point first + k * step, for k < count,
\* maps to itself plus delta.  U+0130 maps to 'i' here; str.lower writes it
\* in two characters (see Lower).
LowerRuns ==
    Runs(<<65, 26, 1, 32,  192, 23, 1, 32,  216, 7, 1, 32,  256, 24, 2, 1,  304, 1, 1, -199,
           306, 3, 2, 1,  313, 8, 2, 1,  330, 23, 2, 1,  376, 1, 1, -121,  377, 3, 2, 1,
           385, 1, 1, 210,  386, 2, 2, 1,  390, 1, 1, 206,  391, 1, 1, 1,  393, 2, 1, 205,
           395, 1, 1, 1,  398, 1, 1, 79,  399, 1, 1, 202,  400, 1, 1, 203,  401, 1, 1, 1,
           403, 1, 1, 205,  404, 1, 1, 207,  406, 1, 1, 211,  407, 1, 1, 209,  408, 1, 1, 1,
           412, 1, 1, 211,  413, 1, 1, 213,  415, 1, 1, 214,  416, 3, 2, 1,  422, 1, 1, 218,
           423, 1, 1, 1,  425, 1, 1, 218,  428, 1, 1, 1,  430, 1, 1, 218,  431, 1, 1, 1,
           433, 2, 1, 217,  435, 2, 2, 1,  439, 1, 1, 219,  440, 1, 1, 1,  444, 1, 1, 1,
           452, 1, 1, 2,  453, 1, 1, 1,  455, 1, 1, 2,  456, 1, 1, 1,  458, 1, 1, 2,
           459, 9, 2, 1,  478, 9, 2, 1,  497, 1, 1, 2,  498, 2, 2, 1,  502, 1, 1, -97,
           503, 1, 1, -56,  504, 20, 2, 1,  544, 1, 1, -130,  546, 9, 2, 1,  570, 1, 1, 10795,
           571, 1, 1, 1,  573, 1, 1, -163,  574, 1, 1, 10792,  577, 1, 1, 1,  579, 1, 1, -195,
           580, 1, 1, 69,  581, 1, 1, 71,  582, 5, 2, 1,  880, 2, 2, 1,  886, 1, 1, 1,
           895, 1, 1, 116,  902, 1, 1, 38,  904, 3, 1, 37,  908, 1, 1, 64,  910, 2, 1, 63,
           913, 17, 1, 32,  931, 9, 1, 32,  975, 1, 1, 8,  984, 12, 2, 1,  1012, 1, 1, -60,
           1015, 1, 1, 1,  1017, 1, 1, -7,  1018, 1, 1, 1,  1021, 3, 1, -130,  1024, 16, 1, 80,
           1040, 32, 1, 32,  1120, 17, 2, 1,  1162, 27, 2, 1,  1216, 1, 1, 15,  1217, 7, 2, 1,
           1232, 48, 2, 1,  1329, 38, 1, 48,  4256, 38, 1, 7264,  4295, 1, 1, 7264,  4301, 1, 1, 7264,
           5024, 80, 1, 38864,  5104, 6, 1, 8,  7312, 43, 1, -3008,  7357, 3, 1, -3008,  7680, 75, 2, 1,
           7838, 1, 1, -7615,  7840, 48, 2, 1,  7944, 8, 1, -8,  7960, 6, 1, -8,  7976, 8, 1, -8,
           7992, 8, 1, -8,  8008, 6, 1, -8,  8025, 4, 2, -8,  8040, 8, 1, -8,  8072, 8, 1, -8,
           8088, 8, 1, -8,  8104, 8, 1, -8,  8120, 2, 1, -8,  8122, 2, 1, -74,  8124, 1, 1, -9,
           8136, 4, 1, -86,  8140, 1, 1, -9,  8152, 2, 1, -8,  8154, 2, 1, -100,  8168, 2, 1, -8,
           8170, 2, 1, -112,  8172, 1, 1, -7,  8184, 2, 1, -128,  8186, 2, 1, -126,  8188, 1, 1, -9,
           8486, 1, 1, -7517,  8490, 1, 1, -8383,  8491, 1, 1, -8262,  8498, 1, 1, 28,  8544, 16, 1, 16,
           8579, 1, 1, 1,  9398, 26, 1, 26,  11264, 48, 1, 48,  11360, 1, 1, 1,  11362, 1, 1, -10743,
           11363, 1, 1, -3814,  11364, 1, 1, -10727,  11367, 3, 2, 1,  11373, 1, 1, -10780,  11374, 1, 1, -10749,
           11375, 1, 1, -10783,  11376, 1, 1, -10782,  11378, 1, 1, 1,  11381, 1, 1, 1,  11390, 2, 1, -10815,
           11392, 50, 2, 1,  11499, 2, 2, 1,  11506, 1, 1, 1,  42560, 23, 2, 1,  42624, 14, 2, 1,
           42786, 7, 2, 1,  42802, 31, 2, 1,  42873, 2, 2, 1,  42877, 1, 1, -35332,  42878, 5, 2, 1,
           42891, 1, 1, 1,  42893, 1, 1, -42280,  42896, 2, 2, 1,  42902, 10, 2, 1,  42922, 1, 1, -42308,
           42923, 1, 1, -42319,  42924, 1, 1, -42315,  42925, 1, 1, -42305,  42926, 1, 1, -42308,  42928, 1, 1, -42258,
           42929, 1, 1, -42282,  42930, 1, 1, -42261,  42931, 1, 1, 928,  42932, 8, 2, 1,  42948, 1, 1, -48,
           42949, 1, 1, -42307,  42950, 1, 1, -35384,  42951, 2, 2, 1,  42960, 1, 1, 1,  42966, 2, 2, 1,
           42997, 1, 1, 1,  65313, 26, 1, 32,  66560, 40, 1, 40,  66736, 36, 1, 40,  66928, 11, 1, 39,
           66940, 15, 1, 39,  66956, 7, 1, 39,  66964, 2, 1, 39,  68736, 51, 1, 64,  71840, 32, 1, 32,
           93760, 32, 1, 32,  125184, 34, 1, 34>>)

LowerPairs ==
    UNION {{<<chr(r[1] + k * r[3]), chr(r[1] + k * r[3] + r[4])>> : k \in 0..(r[2] - 1)} :
           r \in Range(LowerRuns)}

\* the characters c with c.lower() != c
UpperSet == {p[1] : p \in LowerPairs}

\* The lowercase of one character: c.lower() for every c but U+0130, and the
\* folding that re.IGNORECASE applies to the two sides of a backreference
LowerChar(c) ==
    IF c \in Range(UpperLetters)
    THEN LowerLetters[CHOOSE i \in 1..26 : UpperLetters[i] = c]
    ELSE IF c \in UpperSet
    THEN (CHOOSE p \in LowerPairs : p[1] = c)[2]
    ELSE c

\* the code points that are cased and not case-ignorable
CasedRanges ==
    Ranges(<<65, 90,  97, 122,  170, 170,  181, 181,  186, 186,  192, 214,
             216, 246,  248, 442,  444, 447,  452, 659,  661, 687,  880, 883,
             886, 887,  891, 893,  895, 895,  902, 902,  904, 906,  908, 908,
             910, 929,  931, 1013,  1015, 1153,  1162, 1327,  1329, 1366,  1376, 1416,
             4256, 4293,  4295, 4295,  4301, 4301,  4304, 4346,  4349, 4351,  5024, 5109,
             5112, 5117,  7296, 7304,  7312, 7354,  7357, 7359,  7424, 7467,  7531, 7543,
             7545, 7578,  7680, 7957,  7960, 7965,  7968, 8005,  8008, 8013,  8016, 8023,
             8025, 8025,  8027, 8027,  8029, 8029,  8031, 8061,  8064, 8116,  8118, 8124,
             8126, 8126,  8130, 8132,  8134, 8140,  8144, 8147,  8150, 8155,  8160, 8172,
             8178, 8180,  8182, 8188,  8450, 8450,  8455, 8455,  8458, 8467,  8469, 8469,
             8473, 8477,  8484, 8484,  8486, 8486,  8488, 8488,  8490, 8493,  8495, 8500,
             8505, 8505,  8508, 8511,  8517, 8521,  8526, 8526,  8544, 8575,  8579, 8580,
             9398, 9449,  11264, 11387,  11390, 11492,  11499, 11502,  11506, 11507,  11520, 11557,
             11559, 11559,  11565, 11565,  42560, 42605,  42624, 42651,  42786, 42863,  42865, 42887,
             42891, 42894,  42896, 42954,  42960, 42961,  42963, 42963,  42965, 42969,  42997, 42998,
             43002, 43002,  43824, 43866,  43872, 43880,  43888, 43967,  64256, 64262,  64275, 64279,
             65313, 65338,  65345, 65370,  66560, 66639,  66736, 66771,  66776, 66811,  66928, 66938,
             66940, 66954,  66956, 66962,  66964, 66965,  66967, 66977,  66979, 66993,  66995, 67001,
             67003, 67004,  68736, 68786,  68800, 68850,  71840, 71903,  93760, 93823,  119808, 119892,
             119894, 119964,  119966, 119967,  119970, 119970,  119973, 119974,  119977, 119980,  119982, 119993,
             119995, 119995,  119997, 120003,  120005, 120069,  120071, 120074,  120077, 120084,  120086, 120092,
             120094, 120121,  120123, 120126,  120128, 120132,  120134, 120134,  120138, 120144,  120146, 120485,
             120488, 120512,  120514, 120538,  120540, 120570,  120572, 120596,  120598, 120628,  120630, 120654,
             120656, 120686,  120688, 120712,  120714, 120744,  120746, 120770,  120772, 120779,  122624, 122633,
             122635, 122654,  125184, 125251,  127280, 127305,  127312, 127337,  127344, 127369>>)

CasedChars == Chars(CasedRanges)

\* the case-ignorable code points
CaseIgnorableRanges ==
    Ranges(<<39, 39,  46, 46,  58, 58,  94, 94,  96, 96,  168, 168,
             173, 173,  175, 175,  180, 180,  183, 184,  688, 879,  884, 885,
             890, 890,  900, 901,  903, 903,  1155, 1161,  1369, 1369,  1375, 1375,
             1425, 1469,  1471, 1471,  1473, 1474,  1476, 1477,  1479, 1479,  1524, 1524,
             1536, 1541,  1552, 1562,  1564, 1564,  1600, 1600,  1611, 1631,  1648, 1648,
             1750, 1757,  1759, 1768,  1770, 1773,  1807, 1807,  1809, 1809,  1840, 1866,
             1958, 1968,  2027, 2037,  2042, 2042,  2045, 2045,  2070, 2093,  2137, 2139,
             2184, 2184,  2192, 2193,  2200, 2207,  2249, 2306,  2362, 2362,  2364, 2364,
             2369, 2376,  2381, 2381,  2385, 2391,  2402, 2403,  2417, 2417,  2433, 2433,
             2492, 2492,  2497, 2500,  2509, 2509,  2530, 2531,  2558, 2558,  2561, 2562,
             2620, 2620,  2625, 2626,  2631, 2632,  2635, 2637,  2641, 2641,  2672, 2673,
             2677, 2677,  2689, 2690,  2748, 2748,  2753, 2757,  2759, 2760,  2765, 2765,
             2786, 2787,  2810, 2815,  2817, 2817,  2876, 2876,  2879, 2879,  2881, 2884,
             2893, 2893,  2901, 2902,  2914, 2915,  2946, 2946,  3008, 3008,  3021, 3021,
             3072, 3072,  3076, 3076,  3132, 3132,  3134, 3136,  3142, 3144,  3146, 3149,
             3157, 3158,  3170, 3171,  3201, 3201,  3260, 3260,  3263, 3263,  3270, 3270,
             3276, 3277,  3298, 3299,  3328, 3329,  3387, 3388,  3393, 3396,  3405, 3405,
             3426, 3427,  3457, 3457,  3530, 3530,  3538, 3540,  3542, 3542,  3633, 3633,
             3636, 3642,  3654, 3662,  3761, 3761,  3764, 3772,  3782, 3782,  3784, 3789,
             3864, 3865,  3893, 3893,  3895, 3895,  3897, 3897,  3953, 3966,  3968, 3972,
             3974, 3975,  3981, 3991,  3993, 4028,  4038, 4038,  4141, 4144,  4146, 4151,
             4153, 4154,  4157, 4158,  4184, 4185,  4190, 4192,  4209, 4212,  4226, 4226,
             4229, 4230,  4237, 4237,  4253, 4253,  4348, 4348,  4957, 4959,  5906, 5908,
             5938, 5939,  5970, 5971,  6002, 6003,  6068, 6069,  6071, 6077,  6086, 6086,
             6089, 6099,  6103, 6103,  6109, 6109,  6155, 6159,  6211, 6211,  6277, 6278,
             6313, 6313,  6432, 6434,  6439, 6440,  6450, 6450,  6457, 6459,  6679, 6680,
             6683, 6683,  6742, 6742,  6744, 6750,  6752, 6752,  6754, 6754,  6757, 6764,
             6771, 6780,  6783, 6783,  6823, 6823,  6832, 6862,  6912, 6915,  6964, 6964,
             6966, 6970,  6972, 6972,  6978, 6978,  7019, 7027,  7040, 7041,  7074, 7077,
             7080, 7081,  7083, 7085,  7142, 7142,  7144, 7145,  7149, 7149,  7151, 7153,
             7212, 7219,  7222, 7223,  7288, 7293,  7376, 7378,  7380, 7392,  7394, 7400,
             7405, 7405,  7412, 7412,  7416, 7417,  7468, 7530,  7544, 7544,  7579, 7679,
             8125, 8125,  8127, 8129,  8141, 8143,  8157, 8159,  8173, 8175,  8189, 8190,
             8203, 8207,  8216, 8217,  8228, 8228,  8231, 8231,  8234, 8238,  8288, 8292,
             8294, 8303,  8305, 8305,  8319, 8319,  8336, 8348,  8400, 8432,  11388, 11389,
             11503, 11505,  11631, 11631,  11647, 11647,  11744, 11775,  11823, 11823,  12293, 12293,
             12330, 12333,  12337, 12341,  12347, 12347,  12441, 12446,  12540, 12542,  40981, 40981,
             42232, 42237,  42508, 42508,  42607, 42610,  42612, 42621,  42623, 42623,  42652, 42655,
             42736, 42737,  42752, 42785,  42864, 42864,  42888, 42890,  42994, 42996,  43000, 43001,
             43010, 43010,  43014, 43014,  43019, 43019,  43045, 43046,  43052, 43052,  43204, 43205,
             43232, 43249,  43263, 43263,  43302, 43309,  43335, 43345,  43392, 43394,  43443, 43443,
             43446, 43449,  43452, 43453,  43471, 43471,  43493, 43494,  43561, 43566,  43569, 43570,
             43573, 43574,  43587, 43587,  43596, 43596,  43632, 43632,  43644, 43644,  43696, 43696,
             43698, 43700,  43703, 43704,  43710, 43711,  43713, 43713,  43741, 43741,  43756, 43757,
             43763, 43764,  43766, 43766,  43867, 43871,  43881, 43883,  44005, 44005,  44008, 44008,
             44013, 44013,  64286, 64286,  64434, 64450,  65024, 65039,  65043, 65043,  65056, 65071,
             65106, 65106,  65109, 65109,  65279, 65279,  65287, 65287,  65294, 65294,  65306, 65306,
             65342, 65342,  65344, 65344,  65392, 65392,  65438, 65439,  65507, 65507,  65529, 65531,
             66045, 66045,  66272, 66272,  66422, 66426,  67456, 67461,  67463, 67504,  67506, 67514,
             68097, 68099,  68101, 68102,  68108, 68111,  68152, 68154,  68159, 68159,  68325, 68326,
             68900, 68903,  69291, 69292,  69446, 69456,  69506, 69509,  69633, 69633,  69688, 69702,
             69744, 69744,  69747, 69748,  69759, 69761,  69811, 69814,  69817, 69818,  69821, 69821,
             69826, 69826,  69837, 69837,  69888, 69890,  69927, 69931,  69933, 69940,  70003, 70003,
             70016, 70017,  70070, 70078,  70089, 70092,  70095, 70095,  70191, 70193,  70196, 70196,
             70198, 70199,  70206, 70206,  70367, 70367,  70371, 70378,  70400, 70401,  70459, 70460,
             70464, 70464,  70502, 70508,  70512, 70516,  70712, 70719,  70722, 70724,  70726, 70726,
             70750, 70750,  70835, 70840,  70842, 70842,  70847, 70848,  70850, 70851,  71090, 71093,
             71100, 71101,  71103, 71104,  71132, 71133,  71219, 71226,  71229, 71229,  71231, 71232,
             71339, 71339,  71341, 71341,  71344, 71349,  71351, 71351,  71453, 71455,  71458, 71461,
             71463, 71467,  71727, 71735,  71737, 71738,  71995, 71996,  71998, 71998,  72003, 72003,
             72148, 72151,  72154, 72155,  72160, 72160,  72193, 72202,  72243, 72248,  72251, 72254,
             72263, 72263,  72273, 72278,  72281, 72283,  72330, 72342,  72344, 72345,  72752, 72758,
             72760, 72765,  72767, 72767,  72850, 72871,  72874, 72880,  72882, 72883,  72885, 72886,
             73009, 73014,  73018, 73018,  73020, 73021,  73023, 73029,  73031, 73031,  73104, 73105,
             73109, 73109,  73111, 73111,  73459, 73460,  78896, 78904,  92912, 92916,  92976, 92982,
             92992, 92995,  94031, 94031,  94095, 94111,  94176, 94177,  94179, 94180,  110576, 110579,
             110581, 110587,  110589, 110590,  113821, 113822,  113824, 113827,  118528, 118573,  118576, 118598,
             119143, 119145,  119155, 119170,  119173, 119179,  119210, 119213,  119362, 119364,  121344, 121398,
             121403, 121452,  121461, 121461,  121476, 121476,  121499, 121503,  121505, 121519,  122880, 122886,
             122888, 122904,  122907, 122913,  122915, 122916,  122918, 122922,  123184, 123197,  123566, 123566,
             123628, 123631,  125136, 125142,  125252, 125259,  127995, 127999,  917505, 917505,  917536, 917631,
             917760, 917999>>)

CaseIgnorableChars == Chars(CaseIgnorableRanges)

\* s[i] (1-based), a capital sigma, ends a word: before it, after any
\* case-ignorable characters, stands a cased character, and after it, after
\* any case-ignorable characters, stands none
FinalSigma(s, i) ==
    LET before == {j \in 1..(i - 1) : s[j] \notin CaseIgnorableChars}
        after == {j \in (i + 1)..Len(s) : s[j] \notin CaseIgnorableChars}
    IN  /\ before # {}
        /\ s[CHOOSE j \in before : \A k \in before : k <= j] \in CasedChars
        /\ \/ after = {}
           \/ s[CHOOSE j \in after : \A k \in after : j <= k] \notin CasedChars

\* str.lower: the lowercase of each character, where U+0130 becomes 'i' and
\* U+0307 and a capital sigma becomes U+03C2 at the end of a word and U+03C3
\* elsewhere
Lower(s) ==
    LET one(i) ==
            IF s[i] = "U+0130" THEN <<"i", "U+0307">>
            ELSE IF s[i] = "U+03A3"
            THEN <<IF FinalSigma(s, i) THEN "U+03C2" ELSE "U+03C3">>
            ELSE <<LowerChar(s[i])>>
        low[k \in 0..Len(s)] == IF k = 0 THEN <<>> ELSE low[k - 1] \o one(k)
    IN  low[Len(s)]

\* s[a:b] for 0 <= a, with b clipped to len(s)
Slice(s, a, b) ==
    LET hi == IF b > Len(s) THEN Len(s) ELSE b
    IN  IF a >= hi THEN <<>> ELSE SubSeq(s, a + 1, hi)

\* s[i] for 0 <= i < len(s)
At(s, i) == s[i + 1]

\* s[i:].startswith(sub)
StartsAt(s, i, sub) ==
    /\ i + Len(sub) <= Len(s)
    /\ \A k \in 1..Len(sub) : s[i + k] = sub[k]

\* sub in s
Contains(s, sub) == \E i \in 0..Len(s) : StartsAt(s, i, sub)

RECURSIVE CountFrom(_, _, _)
CountFrom(s, sub, i) ==
    IF i + Len(sub) > Len(s) THEN 0
    ELSE IF StartsAt(s, i, sub) THEN 1 + CountFrom(s, sub, i + Len(sub))
    ELSE CountFrom(s, sub, i + 1)

\* s.count(sub): non-overlapping occurrences, sub not empty; occurrences of a
\* single character cannot overlap
Count(s, sub) ==
    IF Len(sub) = 1 THEN Cardinality({i \in 1..Len(s) : s[i] = sub[1]})
    ELSE CountFrom(s, sub, 0)

RECURSIVE Str(_)
\* str(n) for n >= 0, the decimal digits
Str(n) == IF n < 10 THEN <<Digits[n + 1]>> ELSE Str(n \div 10) \o <<Digits[(n % 10) + 1]>>

RECURSIVE Join(_, _)
\* sep.join(parts)
Join(parts, sep) ==
    IF parts = <<>> THEN <<>>
    ELSE IF Len(parts) = 1 THEN parts[1]
    ELSE parts[1] \o sep \o Join(Tail(parts), sep)

\* the offset just past the longest run of characters of class cls starting at i
RunEnd(s, i, cls) ==
    LET run[k \in i..Len(s)] ==
            IF k + 64 <= Len(s) /\ \A j \in (k + 1)..(k + 64) : s[j] \in cls THEN run[k + 64]
            ELSE IF k < Len(s) /\ s[k + 1] \in cls THEN run[k + 1]
            ELSE k
    IN  run[i]

----------------------------------------------------------------------------
(* RuleMatch and the shared helpers *)

\* a variant of the constructor that labels every match with its rule's id
RuleMatch_named_by_id(rule_id, rule_name, category, severity, txt, suggestion, location, context) ==
    [rule_id |-> rule_id, rule_name |-> rule_id, category |-> category,
     severity |-> severity, text |-> txt, suggestion |-> suggestion,
     location |-> location, context |-> context]

RuleMatch(rule_id, rule_name, category, severity, txt, suggestion, location, context) ==
    [rule_id |-> rule_id, rule_name |-> rule_name, category |-> category,
     severity |-> severity, text |-> txt, suggestion |-> suggestion,
     location |-> location, context |-> context]

\* a variant that also counts a newline at the position itself
_get_line_number_inclusive(t, position) == Count(Slice(t, 0, position + 1), <<NL>>) + 1

_get_line_number(t, position) == Count(Slice(t, 0, position), <<NL>>) + 1

context_chars == 30

\* a variant that writes the leading ellipsis whenever the span starts after
\* offset 0
_get_context_eager_prefix(t, start, end) ==
    LET ctx_start == IF start - context_chars > 0 THEN start - context_chars ELSE 0
        ctx_end == IF end + context_chars < Len(t) THEN end + context_chars ELSE Len(t)
        prefix == IF start > 0 THEN S("...") ELSE <<>>
        suffix == IF ctx_end < Len(t) THEN S("...") ELSE <<>>
    IN  prefix \o Slice(t, ctx_start, ctx_end) \o suffix

_get_context(t, start, end) ==
    LET ctx_start == IF start - context_chars > 0 THEN start - context_chars ELSE 0
        ctx_end == IF end + context_chars < Len(t) THEN end + context_chars ELSE Len(t)
        prefix == IF ctx_start > 0 THEN S("...") ELSE <<>>
        suffix == IF ctx_end < Len(t) THEN S("...") ELSE <<>>
    IN  prefix \o Slice(t, ctx_start, ctx_end) \o suffix

\* a variant that resumes the scan one character after a match's start, so that
\* matches may overlap
finditer_overlapping(t, MatchEnd) ==
    LET scan[p \in 0..Len(t)] ==
            IF p >= Len(t) THEN <<>>
            ELSE LET e == MatchEnd[p]
                 IN  IF e = -1 THEN scan[p + 1]
                     ELSE <<[start |-> p, end |-> e]>> \o scan[p + 1]
    IN  scan[0]

\* re.finditer: the spans [start, end) of the leftmost non-overlapping matches;
\* MatchEnd[p] is the end of the pattern's match starting at p, or -1.
\* Every pattern of this module matches at least one character.
finditer(t, MatchEnd) ==
    LET scan[p \in 0..Len(t)] ==
            IF p >= Len(t) THEN <<>>
            ELSE LET e == MatchEnd[p]
                 IN  IF e = -1 THEN scan[p + 1]
                     ELSE <<[start |-> p, end |-> e]>> \o scan[e]
    IN  scan[0]

Max(A) == CHOOSE x \in A : \A y \in A : y <= x

\* repr(s) of a str made of spaces: the str between single quotes
repr(s) == <<SQ>> \o s \o <<SQ>>

RECURSIVE split(_, _)
\* s.split(c), c one character
split(s, c) ==
    IF \A i \in 1..Len(s) : s[i] # c THEN <<s>>
    ELSE LET i == CHOOSE k \in 1..Len(s) : s[k] = c /\ \A j \in 1..(k - 1) : s[j] # c
         IN  <<SubSeq(s, 1, i - 1)>> \o split(SubSeq(s, i + 1, Len(s)), c)

RECURSIVE rstrip(_)
\* s.rstrip()
rstrip(s) == IF s # <<>> /\ IsSpace(s[Len(s)]) THEN rstrip(SubSeq(s, 1, Len(s) - 1)) ELSE s

----------------------------------------------------------------------------
(* High value checks *)

\* r' {2,}'
double_spaces_re(t, p) ==
    LET e == RunEnd(t, p, {SP})
    IN  IF e - p >= 2 THEN e ELSE -1

\* a variant of _check_double_spaces without the line-start exclusion
_check_double_spaces_everywhere(t) ==
    LET found == finditer(t, [p \in 0..Len(t) - 1 |-> double_spaces_re(t, p)])
    IN  [k \in 1..Len(found) |->
            LET m == found[k]
            IN  RuleMatch("double-spaces", "Double Spaces", "spacing", "medium",
                    repr(Slice(t, m.start, m.end)),
                    S("Replace with single space"),
                    S("Line ") \o Str(_get_line_number(t, m.start))
                        \o S(", position ") \o Str(m.start),
                    _get_context(t, m.start, m.end))]

_check_double_spaces(t) ==
    LET found == SelectSeq(finditer(t, [p \in 0..Len(t) - 1 |-> double_spaces_re(t, p)]),
            LAMBDA m : ~(m.start = 0 \/ At(t, m.start - 1) = NL))
    IN  [k \in 1..Len(found) |->
            LET m == found[k]
            IN  RuleMatch("double-spaces", "Double Spaces", "spacing", "medium",
                    repr(Slice(t, m.start, m.end)),
                    S("Replace with single space"),
                    S("Line ") \o Str(_get_line_number(t, m.start))
                        \o S(", position ") \o Str(m.start),
                    _get_context(t, m.start, m.end))]

\* \b at offset i
WordBoundary(t, i) ==
    (i > 0 /\ IsWord(At(t, i - 1))) # (i < Len(t) /\ IsWord(At(t, i)))

\* a backreference under re.IGNORECASE: t[i:] starts with g, case ignored
StartsAtFold(t, i, g) ==
    /\ i + Len(g) <= Len(t)
    /\ \A k \in 1..Len(g) : LowerChar(t[i + k]) = LowerChar(g[k])

\* r'\b(\w+)\s+\1\b' at p: the pairs <<q, w>> with group 1 = t[p:q] and the
\* whitespace t[q:w] for which the rest of the pattern matches
repeated_words_splits(t, p) ==
    IF ~WordBoundary(t, p) THEN {}
    ELSE UNION {{<<q, w>> : w \in {x \in (q + 1)..RunEnd(t, q, Whitespace) :
                                    /\ StartsAtFold(t, x, Slice(t, p, q))
                                    /\ WordBoundary(t, x + (q - p))}} :
                q \in (p + 1)..RunEnd(t, p, WordChars)}

\* the end of group 1 in the match at p: \w+ is greedy, the longest that matches
repeated_words_group1(t, p) == Max({qw[1] : qw \in repeated_words_splits(t, p)})

\* r'\b(\w+)\s+\1\b', re.IGNORECASE
repeated_words_re(t, p) ==
    LET splits == repeated_words_splits(t, p)
    IN  IF splits = {} THEN -1
        ELSE LET q == repeated_words_group1(t, p)
                 w == Max({qw[2] : qw \in {x \in splits : x[1] = q}})
             IN  w + (q - p)

repeated_words_stoplist == {S("that"), S("had"), S("very"), S("really"), S("blah")}

\* a variant of _check_repeated_words that looks the word up in the stoplist
\* as it is written, not lowercased
_check_repeated_words_cased(t) ==
    LET found == SelectSeq(finditer(t, [p \in 0..Len(t) - 1 |-> repeated_words_re(t, p)]),
            LAMBDA m : Slice(t, m.start, repeated_words_group1(t, m.start))
                       \notin repeated_words_stoplist)
    IN  [k \in 1..Len(found) |->
            LET m == found[k]
            IN  RuleMatch("repeated-words", "Repeated Word", "grammar", "high",
                    Slice(t, m.start, m.end),
                    S("Remove duplicate '")
                        \o Slice(t, m.start, repeated_words_group1(t, m.start)) \o S("'"),
                    S("Line ") \o Str(_get_line_number(t, m.start)),
                    _get_context(t, m.start, m.end))]

_check_repeated_words(t) ==
    LET found == SelectSeq(finditer(t, [p \in 0..Len(t) - 1 |-> repeated_words_re(t, p)]),
            LAMBDA m : Lower(Slice(t, m.start, repeated_words_group1(t, m.start)))
                       \notin repeated_words_stoplist)
    IN  [k \in 1..Len(found) |->
            LET m == found[k]
            IN  RuleMatch("repeated-words", "Repeated Word", "grammar", "high",
                    Slice(t, m.start, m.end),
                    S("Remove duplicate '")
                        \o Slice(t, m.start, repeated_words_group1(t, m.start)) \o S("'"),
                    S("Line ") \o Str(_get_line_number(t, m.start)),
                    _get_context(t, m.start, m.end))]

\* a variant of missing_space_re that takes any word character after the mark
missing_space_re_word(t, p) ==
    IF p + 1 < Len(t) /\ IsPunct(At(t, p)) /\ IsWord(At(t, p + 1)) THEN p + 2 ELSE -1

\* r'([.,;:!?])([A-Za-z])'
missing_space_re(t, p) ==
    IF p + 1 < Len(t) /\ IsPunct(At(t, p)) /\ IsLetter(At(t, p + 1)) THEN p + 2 ELSE -1

url_markers == {S("http"), S("www."), S("ftp"), S(".com"), S(".org")}

\* a variant that looks one character further back
url_lookback_wide == 10 + 1

url_lookback == 10

\* a variant of _check_missing_space_after_punct without the decimal exclusion
_check_missing_space_after_punct_decimal(t) ==
    LET found == SelectSeq(finditer(t, [p \in 0..Len(t) - 1 |-> missing_space_re(t, p)]),
            LAMBDA m :
                LET before == Slice(t, IF m.start - url_lookback > 0
                                       THEN m.start - url_lookback ELSE 0, m.start)
                IN  ~(\E x \in url_markers : Contains(Lower(before), x)))
    IN  [k \in 1..Len(found) |->
            LET m == found[k]
            IN  RuleMatch("missing-space-after-punct",
                    "Missing Space After Punctuation", "spacing", "medium",
                    Slice(t, m.start, m.end),
                    <<At(t, m.start), SP, At(t, m.start + 1)>>,
                    S("Line ") \o Str(_get_line_number(t, m.start)),
                    _get_context(t, m.start, m.end))]

_check_missing_space_after_punct(t) ==
    LET found == SelectSeq(finditer(t, [p \in 0..Len(t) - 1 |-> missing_space_re(t, p)]),
            LAMBDA m :
            LET before == Slice(t, IF m.start - url_lookback > 0
                                   THEN m.start - url_lookback ELSE 0, m.start)
            IN  /\ ~(\E x \in url_markers : Contains(Lower(before), x))
                /\ ~(At(t, m.start) = "." /\ m.start > 0 /\ IsDigit(At(t, m.start - 1))))
    IN  [k \in 1..Len(found) |->
            LET m == found[k]
            IN  RuleMatch("missing-space-after-punct",
                    "Missing Space After Punctuation", "spacing", "medium",
                    Slice(t, m.start, m.end),
                    <<At(t, m.start), SP, At(t, m.start + 1)>>,
                    S("Line ") \o Str(_get_line_number(t, m.start)),
                    _get_context(t, m.start, m.end))]

\* r'(\w)\s+([.,;:!?])': \s+ is greedy, the longest run that a mark follows
space_before_re(t, p) ==
    IF ~IsWord(At(t, p)) THEN -1
    ELSE LET ws == {w \in (p + 2)..RunEnd(t, p + 1, Whitespace) :
                        w < Len(t) /\ IsPunct(At(t, w))}
         IN  IF ws = {} THEN -1 ELSE Max(ws) + 1

_check_space_before_punct(t) ==
    LET found == finditer(t, [p \in 0..Len(t) - 1 |-> space_before_re(t, p)])
    IN  [k \in 1..Len(found) |->
            LET m == found[k]
            IN  RuleMatch("space-before-punct", "Space Before Punctuation",
                    "spacing", "medium",
                    Slice(t, m.start, m.end),
                    <<At(t, m.start), At(t, m.end - 1)>>,
                    S("Line ") \o Str(_get_line_number(t, m.start)),
                    _get_context(t, m.start, m.end))]

bracket_pairs == <<<<"(", ")">>, <<"[", "]">>, <<"{", "}">>>>

\* a variant of the loop body that grades the severity by the imbalance
unclosed_bracket_pair_graded(t, open_char, close_char) ==
    LET open_count == Count(t, <<open_char>>)
        close_count == Count(t, <<close_char>>)
        diff == open_count - close_count
    IN  IF open_count = close_count THEN <<>>
        ELSE IF diff > 0 THEN
            <<RuleMatch("unclosed-brackets", "Unclosed Bracket", "formatting",
                IF diff > 1 THEN "high" ELSE "medium",
                Str(diff) \o S(" unclosed '") \o <<open_char>> \o S("'"),
                S("Add ") \o Str(diff) \o S(" closing '") \o <<close_char>> \o S("'"),
                S("Document-wide"),
                S("Found ") \o Str(open_count) \o S(" '") \o <<open_char>>
                    \o S("' but only ") \o Str(close_count) \o S(" '")
                    \o <<close_char>> \o S("'"))>>
        ELSE
            <<RuleMatch("unclosed-brackets", "Extra Closing Bracket", "formatting",
                IF diff < -1 THEN "high" ELSE "medium",
                Str(-diff) \o S(" extra '") \o <<close_char>> \o S("'"),
                S("Remove ") \o Str(-diff) \o S(" extra '") \o <<close_char>>
                    \o S("' or add opening '") \o <<open_char>> \o S("'"),
                S("Document-wide"),
                S("Found ") \o Str(close_count) \o S(" '") \o <<close_char>>
                    \o S("' but only ") \o Str(open_count) \o S(" '")
                    \o <<open_char>> \o S("'"))>>

\* the body of the loop over pairs, for one pair
unclosed_bracket_pair(t, open_char, close_char) ==
    LET open_count == Count(t, <<open_char>>)
        close_count == Count(t, <<close_char>>)
        diff == open_count - close_count
    IN  IF open_count = close_count THEN <<>>
        ELSE IF diff > 0 THEN
            <<RuleMatch("unclosed-brackets", "Unclosed Bracket", "formatting", "high",
                Str(diff) \o S(" unclosed '") \o <<open_char>> \o S("'"),
                S("Add ") \o Str(diff) \o S(" closing '") \o <<close_char>> \o S("'"),
                S("Document-wide"),
                S("Found ") \o Str(open_count) \o S(" '") \o <<open_char>>
                    \o S("' but only ") \o Str(close_count) \o S(" '")
                    \o <<close_char>> \o S("'"))>>
        ELSE
            <<RuleMatch("unclosed-brackets", "Extra Closing Bracket", "formatting", "high",
                Str(-diff) \o S(" extra '") \o <<close_char>> \o S("'"),
                S("Remove ") \o Str(-diff) \o S(" extra '") \o <<close_char>>
                    \o S("' or add opening '") \o <<open_char>> \o S("'"),
                S("Document-wide"),
                S("Found ") \o Str(close_count) \o S(" '") \o <<close_char>>
                    \o S("' but only ") \o Str(open_count) \o S(" '")
                    \o <<open_char>> \o S("'"))>>

\* a variant that stops at the first unbalanced pair
_check_unclosed_brackets_first(t) ==
    LET loop[k \in 1..(Len(bracket_pairs) + 1)] ==
            IF k > Len(bracket_pairs) THEN <<>>
            ELSE LET found == unclosed_bracket_pair(t, bracket_pairs[k][1],
                                                    bracket_pairs[k][2])
                 IN  IF found # <<>> THEN found ELSE loop[k + 1]
    IN  loop[1]

_check_unclosed_brackets(t) ==
    LET loop[k \in 1..(Len(bracket_pairs) + 1)] ==
            IF k > Len(bracket_pairs) THEN <<>>
            ELSE unclosed_bracket_pair(t, bracket_pairs[k][1], bracket_pairs[k][2])
                     \o loop[k + 1]
    IN  loop[1]

\* a variant of _check_trailing_whitespace that reports each line on its own
_check_trailing_whitespace_per_line(t) ==
    LET lines == split(t, NL)
        trailing == SelectSeq([i \in 1..Len(lines) |-> i],
                              LAMBDA i : lines[i] # rstrip(lines[i]))
    IN  [k \in 1..Len(trailing) |->
            RuleMatch("trailing-whitespace", "Trailing Whitespace", "formatting", "low",
                S("1 line(s) with trailing whitespace"),
                S("Remove trailing spaces"),
                S("Line ") \o Str(trailing[k]),
                S("Found in 1 of ") \o Str(Len(lines)) \o S(" lines"))]

_check_trailing_whitespace(t) ==
    LET lines == split(t, NL)
        trailing_count == Cardinality({i \in 1..Len(lines) : lines[i] # rstrip(lines[i])})
    IN  IF trailing_count > 0 THEN
            <<RuleMatch("trailing-whitespace", "Trailing Whitespace", "formatting", "low",
                Str(trailing_count) \o S(" line(s) with trailing whitespace"),
                S("Remove trailing spaces"),
                S("Multiple lines"),
                S("Found in ") \o Str(trailing_count) \o S(" of ")
                    \o Str(Len(lines)) \o S(" lines"))>>
        ELSE <<>>

----------------------------------------------------------------------------
(* Medium value checks *)

\* r'\n{3,}'
blank_lines_re(t, p) ==
    LET e == RunEnd(t, p, {NL})
    IN  IF e - p >= 3 THEN e ELSE -1

\* a variant of _check_multiple_blank_lines that reports the length of the run
_check_multiple_blank_lines_length(t) ==
    LET found == finditer(t, [p \in 0..Len(t) - 1 |-> blank_lines_re(t, p)])
    IN  [k \in 1..Len(found) |->
            LET m == found[k]
            IN  RuleMatch("multiple-blank-lines", "Multiple Blank Lines",
                    "formatting", "low",
                    Str(m.end - m.start) \o S(" consecutive blank lines"),
                    S("Reduce to single blank line"),
                    S("Line ") \o Str(_get_line_number(t, m.start)),
                    S("Excessive vertical spacing"))]

_check_multiple_blank_lines(t) ==
    LET found == finditer(t, [p \in 0..Len(t) - 1 |-> blank_lines_re(t, p)])
    IN  [k \in 1..Len(found) |->
            LET m == found[k]
            IN  RuleMatch("multiple-blank-lines", "Multiple Blank Lines",
                    "formatting", "low",
                    Str((m.end - m.start) - 1) \o S(" consecutive blank lines"),
                    S("Reduce to single blank line"),
                    S("Line ") \o Str(_get_line_number(t, m.start)),
                    S("Excessive vertical spacing"))]

\* The argument of text.count on line 250, and of the last text.count on line
\* 351.  Every quote character of the source file is ASCII, so the three
\* apostrophes after "text.count(" open a triple-quoted literal that runs to
\* the next three apostrophes: the literal is ") + text.count(".
triple_quoted == S(") + text.count(")

_check_inconsistent_quotes(t) ==
    LET straight_double == Count(t, <<DQ>>)
        curly_double == Count(t, <<DQ>>) + Count(t, <<DQ>>)
        straight_single == Count(t, <<SQ>>)
        curly_single == Count(t, triple_quoted)
    IN  (IF straight_double > 0 /\ curly_double > 0 THEN
            <<RuleMatch("inconsistent-quotes", "Inconsistent Double Quotes",
                "formatting", "low",
                S("Mix of \" (") \o Str(straight_double) \o S(") and \"\"/\"\" (")
                    \o Str(curly_double) \o S(")"),
                S("Use consistent quote style throughout"),
                S("Document-wide"),
                S("Consider using curly quotes for published documents"))>>
         ELSE <<>>)
        \o
        (IF straight_single > 0 /\ curly_single > 0
            /\ straight_single > 3 /\ curly_single > 3 THEN
            <<RuleMatch("inconsistent-quotes", "Inconsistent Single Quotes/Apostrophes",
                "formatting", "low",
                S("Mix of ' (") \o Str(straight_single) \o S(") and ''/'") \o <<BQ>> \o S(" (")
                    \o Str(curly_single) \o S(")"),
                S("Use consistent apostrophe style"),
                S("Document-wide"),
                S("May indicate copy-paste from different sources"))>>
         ELSE <<>>)

_check_tab_characters(t) ==
    LET tab_count == Count(t, <<TAB>>)
    IN  IF tab_count > 0 THEN
            <<RuleMatch("tab-characters", "Tab Characters", "formatting", "low",
                Str(tab_count) \o S(" tab character(s)"),
                S("Replace tabs with spaces for consistent formatting"),
                S("Multiple locations"),
                S("Tabs may render inconsistently across applications"))>>
        ELSE <<>>

\* r'(\w)\s*--\s*(\w)' at p: the pairs <<a, b>> with "--" at a and group 2 at b
double_hyphen_splits(t, p) ==
    IF ~IsWord(At(t, p)) THEN {}
    ELSE UNION {{<<a, b>> : b \in {x \in (a + 2)..RunEnd(t, a + 2, Whitespace) :
                                    x < Len(t) /\ IsWord(At(t, x))}} :
                a \in {x \in (p + 1)..RunEnd(t, p + 1, Whitespace) :
                         StartsAt(t, x, <<"-", "-">>)}}

\* r'(\w)\s*--\s*(\w)': both \s* are greedy, the longest that matches
double_hyphen_re(t, p) ==
    LET splits == double_hyphen_splits(t, p)
    IN  IF splits = {} THEN -1
        ELSE LET a == Max({ab[1] : ab \in splits})
             IN  Max({ab[2] : ab \in {x \in splits : x[1] = a}}) + 1

_check_double_hyphen_emdash(t) ==
    LET found == finditer(t, [p \in 0..Len(t) - 1 |-> double_hyphen_re(t, p)])
    IN  [k \in 1..Len(found) |->
            LET m == found[k]
            IN  RuleMatch("double-hyphen-emdash", "Double Hyphen Instead of Em-Dash",
                    "formatting", "low",
                    Slice(t, m.start, m.end),
                    <<At(t, m.start), EMDASH, At(t, m.end - 1)>>,
                    S("Line ") \o Str(_get_line_number(t, m.start)),
                    _get_context(t, m.start, m.end))]

----------------------------------------------------------------------------
(* Lower priority checks *)

\* the dict hidden_chars, in its insertion order
hidden_chars ==
    << <<ZWSP, S("zero-width space")>>,
       <<ZWNJ, S("zero-width non-joiner")>>,
       <<ZWJ, S("zero-width joiner")>>,
       <<BOM, S("byte order mark")>>,
       <<NBSP, S("non-breaking space")>>,
       <<WJ, S("word joiner")>> >>

\* a variant of _check_hidden_characters that records that a character was
\* found, not how often
_check_hidden_characters_presence(t) ==
    LET found[k \in 1..(Len(hidden_chars) + 1)] ==
            IF k > Len(hidden_chars) THEN <<>>
            ELSE LET count == Count(t, <<hidden_chars[k][1]>>)
                 IN  (IF count > 0
                      THEN <<hidden_chars[k][2] \o S(": ") \o Str(1)>>
                      ELSE <<>>) \o found[k + 1]
    IN  IF found[1] # <<>> THEN
            <<RuleMatch("hidden-characters", "Hidden Characters", "formatting", "medium",
                S("Found hidden characters"),
                S("Remove hidden characters that may cause display issues"),
                S("Document-wide"),
                Join(found[1], S(", ")))>>
        ELSE <<>>

_check_hidden_characters(t) ==
    LET \* the dict found, as the list of its "name: count" items in insertion order
        found[k \in 1..(Len(hidden_chars) + 1)] ==
            IF k > Len(hidden_chars) THEN <<>>
            ELSE LET count == Count(t, <<hidden_chars[k][1]>>)
                 IN  (IF count > 0
                      THEN <<hidden_chars[k][2] \o S(": ") \o Str(count)>>
                      ELSE <<>>) \o found[k + 1]
    IN  IF found[1] # <<>> THEN
            <<RuleMatch("hidden-characters", "Hidden Characters", "formatting", "medium",
                S("Found hidden characters"),
                S("Remove hidden characters that may cause display issues"),
                S("Document-wide"),
                Join(found[1], S(", ")))>>
        ELSE <<>>

_check_straight_vs_curly_quotes(t) ==
    LET straight_quotes == Count(t, <<DQ>>) + Count(t, <<SQ>>)
        curly_quotes == Count(t, <<DQ>>) + Count(t, <<DQ>>) + Count(t, triple_quoted)
    IN  IF straight_quotes > 10 /\ curly_quotes = 0 THEN
            <<RuleMatch("straight-vs-curly-quotes", "Straight Quotes Only",
                "formatting", "low",
                Str(straight_quotes) \o S(" straight quotes"),
                S("Consider using curly quotes for professional documents"),
                S("Document-wide"),
                S("Straight quotes are fine for code/technical docs"))>>
        ELSE <<>>

----------------------------------------------------------------------------
(* RuleChecker *)

\* A Python value that may be None carries its type: None is PyNone and a
\* list is PyList of its elements
PyNone == [type |-> "NoneType"]

PyList(elements) == [type |-> "list", v |-> elements]

\* an Optional[str] that is None, next to the strs that are sequences of
\* characters; also what args and outcome hold before any call
None == <<"None">>

\* RuleChecker.__init__: set(disabled_rules or []), for disabled_rules None
\* or a list of rule ids
__init__(disabled) == IF disabled = PyNone THEN {} ELSE Range(disabled.v)

\* the rule id that each if statement of check_all tests, in program order
RuleIds ==
    <<"double-spaces", "repeated-words", "missing-space-after-punct",
      "space-before-punct", "unclosed-brackets", "trailing-whitespace",
      "multiple-blank-lines", "inconsistent-quotes", "tab-characters",
      "double-hyphen-emdash", "hidden-characters", "straight-vs-curly-quotes">>

\* the check that the k-th if statement of check_all calls
check(k, t) ==
    CASE k = 1 -> _check_double_spaces(t)
      [] k = 2 -> _check_repeated_words(t)
      [] k = 3 -> _check_missing_space_after_punct(t)
      [] k = 4 -> _check_space_before_punct(t)
      [] k = 5 -> _check_unclosed_brackets(t)
      [] k = 6 -> _check_trailing_whitespace(t)
      [] k = 7 -> _check_multiple_blank_lines(t)
      [] k = 8 -> _check_inconsistent_quotes(t)
      [] k = 9 -> _check_tab_characters(t)
      [] k = 10 -> _check_double_hyphen_emdash(t)
      [] k = 11 -> _check_hidden_characters(t)
      [] k = 12 -> _check_straight_vs_curly_quotes(t)

\* a variant of the k-th if statement whose sixth guard tests the fifth id
check_all_step_wrong_guard(disabled, k, ms, t) ==
    IF RuleIds[IF k = 6 THEN 5 ELSE k] \notin disabled THEN ms \o check(k, t) ELSE ms

\* a variant of the k-th if statement that runs no check once an id outside
\* the registry is disabled
check_all_step_strict(disabled, k, ms, t) ==
    IF RuleIds[k] \notin disabled /\ disabled \subseteq Range(RuleIds)
    THEN ms \o check(k, t) ELSE ms

\* the k-th if statement of check_all: matches.extend(...) unless disabled
check_all_step(disabled, k, ms, t) ==
    IF RuleIds[k] \notin disabled THEN ms \o check(k, t) ELSE ms

\* a variant of check_all that runs the lower priority checks first
check_all_reversed(disabled, t) ==
    LET run[k \in 1..(Len(RuleIds) + 1)] ==
            IF k > Len(RuleIds) THEN <<>>
            ELSE check_all_step(disabled, k, run[k + 1], t)
    IN  run[1]

\* check_all on a checker whose disabled_rules is disabled
check_all(disabled, t) ==
    LET run[k \in 0..Len(RuleIds)] ==
            IF k = 0 THEN <<>> ELSE check_all_step(disabled, k, run[k - 1], t)
    IN  run[Len(RuleIds)]

----------------------------------------------------------------------------
(* Inputs *)

\* the twelve registered rule ids, in the declared catalogue order
Catalogue ==
    <<"double-spaces", "repeated-words", "missing-space-after-punct",
      "space-before-punct", "unclosed-brackets", "trailing-whitespace",
      "multiple-blank-lines", "inconsistent-quotes", "tab-characters",
      "double-hyphen-emdash", "hidden-characters", "straight-vs-curly-quotes">>

Registered == Range(Catalogue)

CataloguePos(id) == CHOOSE i \in 1..Len(Catalogue) : Catalogue[i] = id

\* an id the registry does not have
UnknownId == "no-such-rule"

IdList == RuleIds \o <<UnknownId>>

MaxDisabled == 1

RECURSIVE IdLists(_)
\* the lists of at most n registered ids, in catalogue order
IdLists(n) ==
    IF n = 0 THEN {<<>>}
    ELSE LET shorter == IdLists(n - 1)
         IN  shorter \cup
             {l \o <<RuleIds[j]>> : l \in {x \in shorter : Len(x) = n - 1},
                                    j \in 1..Len(RuleIds)}

Sorted(l) == \A i \in 1..(Len(l) - 1) : CataloguePos(l[i]) < CataloguePos(l[i + 1])

\* The arguments given to __init__: None, or a list of at most MaxDisabled
\* registered ids, with or without the unknown id after them.  set() forgets
\* order and repetition, so each set of ids is listed once.
DisabledInputs ==
    LET registered == {l \in IdLists(MaxDisabled) : Sorted(l)}
    IN  {PyNone} \cup {PyList(l) : l \in registered}
               \cup {PyList(l \o <<UnknownId>>) : l \in registered}

\* Pieces of document text; between them they set off every check.
Fragments ==
    { S("a  is is"),
      S(",x ;)"),
      <<"(", TAB, DQ, ZWSP>>,
      <<SP, NL, NL, NL>>,
      S("y--z''''''"),
      <<"U+00E9", "U+000C", "U+00C9", SP, ".", "U+00B2", ".", "b", "U+2003">> }

MaxFrags == 2

RECURSIVE Concats(_)
\* the texts made of at most n fragments
Concats(n) ==
    IF n = 0 THEN {<<>>}
    ELSE LET shorter == Concats(n - 1)
         IN  shorter \cup {t \o f : t \in shorter, f \in Fragments}

Texts == Concats(MaxFrags)

\* the empty text and the single fragments
ShortTexts == Concats(1)

----------------------------------------------------------------------------
(* The state machine: a RuleChecker and the calls made on it *)

TypeOK ==
    /\ disabled_rules \subseteq Range(IdList)
    /\ pc \in {"idle", "running", "returned"}
    /\ idx \in 0..(Len(RuleIds) + 1)
    /\ earlier \in BOOLEAN

\* the callers of analyze_url and analyze_transcript: the threads that run the
\* requests, each of which makes one call on a QualityAnalyzer of its own
Callers == {"A", "B"}

\* The value v itself.  Comparing it makes TLC put the records inside it in
\* their normal form where the value is built, before TLC's workers share it.
Normal(v) == IF v = v THEN v ELSE v

\* a call of a method: where it is (at), the text it has, what it has done so
\* far (args) and, once it is at "returned", what it returned or raised
Frame(position, method, t, a, r) ==
    Normal([at |-> position, op |-> method, text |-> t, args |-> a, outcome |-> r])

\* a caller that has not called yet, and one whose call is over
NotCalled == Frame("idle", "", <<>>, <<>>, <<>>)

Over == Frame("over", "", <<>>, <<>>, <<>>)

\* the state after RuleChecker(d)
Constructed(d) ==
    /\ ctor = d
    /\ disabled_rules = __init__(d)
    /\ earlier = FALSE
    /\ pc = "idle"
    /\ op = ""
    /\ idx = 0
    /\ text = <<>>
    /\ matches = <<>>
    /\ args = None
    /\ outcome = None
    /\ calls = [c \in Callers |-> NotCalled]

Init == \E d \in DisabledInputs : Constructed(d)

\* a call of a method on text t that returns result
Call(method, t, result) ==
    /\ pc = "idle"
    /\ pc' = "returned"
    /\ op' = method
    /\ text' = t
    /\ matches' = result
    /\ UNCHANGED <<disabled_rules, ctor, earlier, idx, args, outcome, calls>>

\* a variant of check_all that remembers what it reported and stays silent
\* about those rules from then on
CheckAllRemembering(t) ==
    /\ pc = "idle"
    /\ pc' = "returned"
    /\ op' = "check_all"
    /\ text' = t
    /\ matches' = check_all(disabled_rules, t)
    /\ disabled_rules' = disabled_rules \cup {matches'[i].rule_id : i \in DOMAIN matches'}
    /\ UNCHANGED <<ctor, earlier, idx, args, outcome, calls>>

\* self.check_all(t), start to finish
CheckAll(t) == Call("check_all", t, check_all(disabled_rules, t))

\* the caller takes the returned list; the call's frame is gone
Return ==
    /\ pc = "returned"
    /\ pc' = "idle"
    /\ earlier' = TRUE
    /\ op' = ""
    /\ idx' = 0
    /\ text' = <<>>
    /\ matches' = <<>>
    /\ UNCHANGED <<disabled_rules, ctor, args, outcome, calls>>

\* one check_all call on a checker built with any of the arguments
Next == \E t \in Texts : CheckAll(t)

Spec == Init /\ [][Next]_vars

\* call after call on the same checker
NextCalls ==
    \/ \E t \in ShortTexts : CheckAll(t)
    \/ Return

SpecCalls == Init /\ [][NextCalls]_vars

----------------------------------------------------------------------------
(* The dispatcher's contract *)

Returned(method) == pc = "returned" /\ op = method

\* what RuleChecker() returns for the text of the last call
DefaultOutput == check_all(__init__(PyNone), text)

\* C1: for every text and disabled set D, RuleChecker(D).check_all(text) is
\* RuleChecker().check_all(text) with exactly the matches whose rule_id is in D
\* removed, the others kept in the same relative order.
C1_DisablingRemovesThatRuleOnly ==
    Returned("check_all") =>
        matches = SelectSeq(DefaultOutput, LAMBDA m : m.rule_id \notin __init__(ctor))

\* a rule with matches on this text is disabled and other matches remain
C1_Witness ==
    /\ Returned("check_all")
    /\ matches # <<>>
    /\ \E i \in DOMAIN DefaultOutput : DefaultOutput[i].rule_id \in __init__(ctor)

\* C2: an id in the disabled set that is none of the twelve registered ids
\* never raises and leaves the output of check_all unchanged.
C2_UnknownIdIsIgnored ==
    (Returned("check_all") /\ __init__(ctor) \ Registered # {}) =>
        matches = check_all(__init__(ctor) \cap Registered, text)

\* a checker built with an unregistered id has returned matches
C2_Witness ==
    /\ Returned("check_all")
    /\ __init__(ctor) \ Registered # {}
    /\ matches # <<>>

\* C3: in every output of check_all the rule_ids follow the catalogue order: a
\* match of a later rule never precedes a match of an earlier rule.
C3_CatalogueOrder ==
    Returned("check_all") =>
        \A i, j \in DOMAIN matches :
            i < j => CataloguePos(matches[i].rule_id) <= CataloguePos(matches[j].rule_id)

\* the bracket and tab come first in the text, the double space and the
\* repeated word after them, and all four rules report
C3_Witness ==
    /\ Returned("check_all")
    /\ text = <<"(", TAB, DQ, ZWSP>> \o S("a  is is")
    /\ {"double-spaces", "repeated-words", "unclosed-brackets", "tab-characters"}
         \subseteq {matches[i].rule_id : i \in DOMAIN matches}

\* C4: check_all is a function of (text, disabled set) alone: whatever calls
\* came before on this checker, a call returns what a freshly constructed
\* checker returns for the same text, and no call changes the disabled set.
C4_NoHiddenState ==
    /\ disabled_rules = __init__(ctor)
    /\ Returned("check_all") => matches = check_all(__init__(ctor), text)

\* a later call on a checker that has already reported matches
C4_Witness ==
    /\ Returned("check_all")
    /\ earlier
    /\ matches # <<>>

----------------------------------------------------------------------------
(* check_all, one if statement at a time *)

\* the empty text and texts of newlines, brackets, quotes, tabs and hidden
\* characters
EdgeTexts ==
    { <<>>, <<NL, NL, NL>>, S(")(]"), <<DQ, SQ, LDQ, RSQ>>, <<TAB, TAB>>,
      <<ZWSP, BOM, NBSP, WJ>> }

\* check_all is entered: matches = []
Begin(t) ==
    /\ pc = "idle"
    /\ pc' = "running"
    /\ op' = "check_all"
    /\ text' = t
    /\ matches' = <<>>
    /\ idx' = 1
    /\ UNCHANGED <<disabled_rules, ctor, earlier, args, outcome, calls>>

\* a variant of Step that moves on only after a check that found something
StepUntilFound ==
    /\ pc = "running"
    /\ idx \in 1..Len(RuleIds)
    /\ matches' = check_all_step(disabled_rules, idx, matches, text)
    /\ idx' = IF matches' = matches THEN idx ELSE idx + 1
    /\ UNCHANGED <<disabled_rules, ctor, earlier, pc, op, text, args, outcome, calls>>

\* the idx-th if statement of check_all
Step ==
    /\ pc = "running"
    /\ idx \in 1..Len(RuleIds)
    /\ matches' = check_all_step(disabled_rules, idx, matches, text)
    /\ idx' = idx + 1
    /\ UNCHANGED <<disabled_rules, ctor, earlier, pc, op, text, args, outcome, calls>>

\* return matches
Finish ==
    /\ pc = "running"
    /\ idx = Len(RuleIds) + 1
    /\ pc' = "returned"
    /\ idx' = 0
    /\ UNCHANGED <<disabled_rules, ctor, earlier, op, text, matches, args, outcome, calls>>

NextRun ==
    \/ \E t \in EdgeTexts : Begin(t)
    \/ Step
    \/ Finish

\* a call that has started keeps running: it is sequential code
SpecRun == Init /\ [][NextRun]_vars /\ WF_vars(Step \/ Finish)

Categories == {"spelling", "grammar", "spacing", "formatting"}

Severities == {"high", "medium", "low"}

IsString(s) == DOMAIN s = 1..Len(s)

\* a list of RuleMatch objects
IsMatchList(ms) ==
    /\ DOMAIN ms = 1..Len(ms)
    /\ \A i \in DOMAIN ms :
        /\ DOMAIN ms[i] = {"rule_id", "rule_name", "category", "severity",
                           "text", "suggestion", "location", "context"}
        /\ ms[i].rule_id \in Registered
        /\ ms[i].category \in Categories
        /\ ms[i].severity \in Severities
        /\ IsString(ms[i].text) /\ IsString(ms[i].suggestion)
        /\ IsString(ms[i].location) /\ IsString(ms[i].context)

\* C5: for every text, the empty one and those of newlines, brackets, quotes,
\* tabs or hidden characters included, and every disabled set, check_all
\* terminates and returns a (possibly empty) list of matches.
C5_TerminatesWithMatches ==
    /\ [](Returned("check_all") => IsMatchList(matches))
    /\ (pc = "running") ~> Returned("check_all")

\* check_all has returned the empty list for the empty text
C5_Witness ==
    /\ Returned("check_all")
    /\ text = <<>>
    /\ matches = <<>>

----------------------------------------------------------------------------
(* The checks, called one at a time on RuleChecker() *)

InitDefault == Constructed(PyNone)

RECURSIVE Strings(_, _)
\* the strings of at most n characters of alphabet A
Strings(A, n) ==
    IF n = 0 THEN {<<>>}
    ELSE LET shorter == Strings(A, n - 1)
         IN  shorter \cup {s \o <<c>> : s \in shorter, c \in A}

RECURSIVE Rep(_, _)
\* s * n
Rep(s, n) == IF n = 0 THEN <<>> ELSE s \o Rep(s, n - 1)

(* missing-space-after-punct *)

PunctExamples ==
    {S("Visit www.example.com"), S("Hello,world"), S("The price is 3.5 dollars"),
     S("www.,w"), S("a.com,b;c"), S("x.y") \o <<NL>> \o S("3.w!Z"), S("v1.2.b"),
     S("mc") \o <<"U+00B2">> \o S(".Next"), <<"U+0663">> \o S(".a,b"),
     S("a.") \o <<"U+00E9">> \o S(";c"), S("FT") \o <<"U+212A">> \o S("P,w")}

PunctAlphabet == {"w", ".", ",", "3", " "}

MaxPunctLen == 3

PunctTexts == PunctExamples \cup Strings(PunctAlphabet, MaxPunctLen)

CheckMissingSpaceAfterPunct(t) ==
    Call("_check_missing_space_after_punct", t, _check_missing_space_after_punct(t))

NextPunct == \E t \in PunctTexts : CheckMissingSpaceAfterPunct(t)

SpecPunct == InitDefault /\ [][NextPunct]_vars

\* C6: missing-space-after-punct reports no match for a '.' that is part of a
\* domain name beginning with 'www.': 'Visit www.example.com' yields none.
C6_NoMatchInsideWwwDomain ==
    (Returned("_check_missing_space_after_punct") /\ text = S("Visit www.example.com"))
        => matches = <<>>

(* inconsistent-quotes and straight-vs-curly-quotes *)

\* how many of one kind of quote a text has: the values on either side of the
\* thresholds the two checks compare with
QuoteCounts == {0, 1, 3, 4, 10, 11}

CurlyCounts == {0, 1, 3, 4}

\* n curly quotes, opening and closing in turn
RECURSIVE Curly(_, _, _)
Curly(open, close, n) ==
    IF n = 0 THEN <<>>
    ELSE Curly(open, close, n - 1) \o <<IF n % 2 = 1 THEN open ELSE close>>

QuoteTexts ==
    {Rep(<<DQ>>, a) \o Curly(LDQ, RDQ, c) \o Rep(<<SQ>>, b) \o Curly(LSQ, RSQ, d) :
        a \in QuoteCounts, b \in QuoteCounts, c \in CurlyCounts, d \in CurlyCounts}
    \cup {Rep(<<SQ>>, 4) \o Rep(triple_quoted, 4)}

CheckInconsistentQuotes(t) ==
    Call("_check_inconsistent_quotes", t, _check_inconsistent_quotes(t))

CheckStraightVsCurlyQuotes(t) ==
    Call("_check_straight_vs_curly_quotes", t, _check_straight_vs_curly_quotes(t))

NextQuotes ==
    \/ \E t \in QuoteTexts : CheckInconsistentQuotes(t)
    \/ \E t \in QuoteTexts : CheckStraightVsCurlyQuotes(t)

SpecQuotes == InitDefault /\ [][NextQuotes]_vars

StraightDouble(t) == Count(t, <<DQ>>)
CurlyDouble(t) == Count(t, <<LDQ>>) + Count(t, <<RDQ>>)
StraightSingle(t) == Count(t, <<SQ>>)
CurlySingle(t) == Count(t, <<LSQ>>) + Count(t, <<RSQ>>)

Reports(name) == \E i \in DOMAIN matches : matches[i].rule_name = name

\* C7: inconsistent-quotes reports inconsistent double quotes exactly when the
\* text has at least one straight double quote (U+0022) and at least one curly
\* double quote (U+201C or U+201D).
C7_DoubleQuoteMix ==
    Returned("_check_inconsistent_quotes") =>
        (Reports("Inconsistent Double Quotes")
            <=> (StraightDouble(text) > 0 /\ CurlyDouble(text) > 0))

\* C8: inconsistent-quotes reports inconsistent apostrophes exactly when the
\* text has more than 3 straight apostrophes (U+0027) and more than 3 curly
\* apostrophes (U+2018 or U+2019).
C8_ApostropheMix ==
    Returned("_check_inconsistent_quotes") =>
        (Reports("Inconsistent Single Quotes/Apostrophes")
            <=> (StraightSingle(text) > 3 /\ CurlySingle(text) > 3))

\* C9: straight-vs-curly-quotes emits its single match exactly when the text
\* has more than 10 straight quotes (double quotes plus apostrophes) and no
\* curly quote character.
C9_StraightQuotesOnly ==
    Returned("_check_straight_vs_curly_quotes") =>
        /\ Len(matches) <= 1
        /\ Len(matches) = 1 <=>
            /\ StraightDouble(text) + StraightSingle(text) > 10
            /\ CurlyDouble(text) + CurlySingle(text) = 0

(* unclosed-brackets *)

BracketExamples == {S("(a, (b)"), S("(a, b)"), S(")(")}

BracketAlphabet == {"(", ")", "[", "]", "{", "}", "a"}

MaxBrackets == 3

BracketTexts == BracketExamples \cup Strings(BracketAlphabet, MaxBrackets)

CheckUnclosedBrackets(t) ==
    Call("_check_unclosed_brackets", t, _check_unclosed_brackets(t))

NextBrackets == \E t \in BracketTexts : CheckUnclosedBrackets(t)

SpecBrackets == InitDefault /\ [][NextBrackets]_vars

\* the three pairs the claim names
Pairs == {<<"(", ")">>, <<"[", "]">>, <<"{", "}">>}

Unbalanced(t, pair) == Count(t, <<pair[1]>>) # Count(t, <<pair[2]>>)

Abs(n) == IF n < 0 THEN -n ELSE n

\* what a match says of an unbalanced pair: the absolute difference and the
\* character in excess
Imbalance(t, pair) ==
    LET diff == Count(t, <<pair[1]>>) - Count(t, <<pair[2]>>)
    IN  Str(Abs(diff)) \o
        (IF diff > 0 THEN S(" unclosed '") \o <<pair[1]>> ELSE S(" extra '") \o <<pair[2]>>)
        \o S("'")

\* C10: for each of the pairs ( ), [ ], { } independently, unclosed-brackets
\* emits exactly one match when the counts of the opening and the closing
\* character differ and none when they are equal, misordered or not; the match
\* reports the absolute difference and which character is in excess.
C10_OneMatchPerUnbalancedPair ==
    Returned("_check_unclosed_brackets") =>
        /\ Len(matches) = Cardinality({pair \in Pairs : Unbalanced(text, pair)})
        /\ \A pair \in Pairs :
            Unbalanced(text, pair) =>
                Cardinality({i \in DOMAIN matches :
                                matches[i].text = Imbalance(text, pair)}) = 1

\* '(a, (b)' has yielded exactly one match, stating 1 unclosed '('
C10_Witness ==
    /\ Returned("_check_unclosed_brackets")
    /\ text = S("(a, (b)")
    /\ Len(matches) = 1
    /\ matches[1].text = S("1 unclosed '('")

----------------------------------------------------------------------------
(* double-spaces *)

SpaceExamples == {S("Hello  world"), S("  indented")}

SpaceAlphabet == {SP, NL, "a"}

MaxSpaceLen == 5

SpaceTexts == SpaceExamples \cup Strings(SpaceAlphabet, MaxSpaceLen)

CheckDoubleSpaces(t) == Call("_check_double_spaces", t, _check_double_spaces(t))

NextSpaces == \E t \in SpaceTexts : CheckDoubleSpaces(t)

SpecSpaces == InitDefault /\ [][NextSpaces]_vars

\* the maximal runs of characters of class cls in t, as spans <<s, e>>: t[s:e]
\* is all of the class, t[s-1] and t[e] are not
MaximalRuns(t, cls) ==
    LET starts == {s \in 0..(Len(t) - 1) :
                      At(t, s) \in cls /\ (s = 0 \/ At(t, s - 1) \notin cls)}
        ends == {e \in 1..Len(t) :
                    At(t, e - 1) \in cls /\ (e = Len(t) \/ At(t, e) \notin cls)}
    IN  {<<s, CHOOSE e \in ends : e > s /\ \A x \in ends : x > s => e <= x>> : s \in starts}

\* the 1-indexed number of the line offset p is on
LineOf(t, p) == Cardinality({k \in 0..(p - 1) : At(t, k) = NL}) + 1

\* the runs of two or more spaces that do not start a line
SpaceRunsInsideLines(t) ==
    {se \in MaximalRuns(t, {SP}) :
        /\ se[2] - se[1] >= 2
        /\ se[1] # 0
        /\ At(t, se[1] - 1) # NL}

\* C11: double-spaces reports exactly one match for each maximal run of two or
\* more spaces whose first space is neither at offset 0 nor right after a
\* newline, and none for a run that starts a line.
C11_OneMatchPerRunInsideLine ==
    Returned("_check_double_spaces") =>
        /\ Len(matches) = Cardinality(SpaceRunsInsideLines(text))
        /\ \A se \in SpaceRunsInsideLines(text) :
            \E i \in DOMAIN matches :
                /\ matches[i].text = <<SQ>> \o Rep(<<SP>>, se[2] - se[1]) \o <<SQ>>
                /\ matches[i].location =
                     S("Line ") \o Str(LineOf(text, se[1]))
                        \o S(", position ") \o Str(se[1])
        /\ (text = S("Hello  world") => Len(matches) = 1)
        /\ (text = S("  indented") => matches = <<>>)

\* a text with a run that starts a line and a run inside a line has yielded
\* one match, for the second
C11_Witness ==
    /\ Returned("_check_double_spaces")
    /\ text = <<SP, SP, "a", SP, SP>>
    /\ Len(matches) = 1
    /\ matches[1].location = S("Line 1, position 3")

----------------------------------------------------------------------------
(* repeated-words *)

WordExamples ==
    {S("the the cat"), S("that that happened"), S("a a a a"), S("very  VERY, a"),
     S("caf") \o <<"U+00E9">> \o S(" Caf") \o <<"U+00C9">>,
     S("the") \o <<"U+000C">> \o S("The"),
     <<"U+212A", "U+2003", "k", SP, "K">>,
     <<"U+039F", "U+03A3", SP, "U+03BF", "U+03C2", SP, "U+03BF", "U+03C3">>,
     <<"U+0130", SP, "i", SP, "i", "U+0307">>}

\* pieces of text: words in both cases, a stoplist word, separators
WordTokens == {S("the"), S("The"), S("that"), S("That"), S("a"), <<SP>>, <<NL>>, S(",")}

MaxWordTokens == 4

RECURSIVE TokenTexts(_, _)
\* the texts made of at most n of the tokens
TokenTexts(tokens, n) ==
    IF n = 0 THEN {<<>>}
    ELSE LET shorter == TokenTexts(tokens, n - 1)
         IN  shorter \cup {t \o w : t \in shorter, w \in tokens}

WordTexts == WordExamples \cup TokenTexts(WordTokens, MaxWordTokens)

CheckRepeatedWords(t) == Call("_check_repeated_words", t, _check_repeated_words(t))

NextWords == \E t \in WordTexts : CheckRepeatedWords(t)

SpecWords == InitDefault /\ [][NextWords]_vars

\* two words are the same when case is ignored: they have the same length and
\* at each position the same character in lower case
SameIgnoringCase(u, v) ==
    /\ Len(u) = Len(v)
    /\ \A k \in DOMAIN u : LowerChar(u[k]) = LowerChar(v[k])

\* the pairs <<s, e>> of offsets such that t[s:e] is a whole word, whitespace,
\* and the same word again, case ignored, the lowercased word not being in the
\* stoplist
RepeatedPairs(t) ==
    LET words == MaximalRuns(t, WordChars)
        word(w) == Lower(Slice(t, w[1], w[2]))
        repeated ==
            {p \in words \X words :
                /\ p[1][2] < p[2][1]
                /\ \A k \in p[1][2]..(p[2][1] - 1) : At(t, k) \in Whitespace
                /\ SameIgnoringCase(Slice(t, p[1][1], p[1][2]), Slice(t, p[2][1], p[2][2]))
                /\ word(p[1]) \notin
                     {S("that"), S("had"), S("very"), S("really"), S("blah")}}
    IN  {<<p[1][1], p[2][2]>> : p \in repeated}

MatchTexts == {matches[i].text : i \in DOMAIN matches}

\* C12: repeated-words reports a whole word followed, with only whitespace
\* between, by the same word compared case-insensitively, unless the lowercased
\* word is one of that, had, very, really, blah. Every match is such a pair; every
\* such pair is reported, or begins with the second word of a reported pair;
\* 'the the cat' yields exactly one match, 'the the', and 'that that happened'
\* none.
C12_RepeatedWordPairs ==
    Returned("_check_repeated_words") =>
        LET pairs == RepeatedPairs(text)
        IN
        /\ \A i \in DOMAIN matches :
            \E se \in pairs : matches[i].text = Slice(text, se[1], se[2])
        /\ Len(matches) <= Cardinality(pairs)
        /\ \A se \in pairs :
            \/ Slice(text, se[1], se[2]) \in MatchTexts
            \/ \E before \in pairs :
                /\ before[1] < se[1] /\ se[1] < before[2] /\ before[2] < se[2]
                /\ Slice(text, before[1], before[2]) \in MatchTexts
        /\ (text = S("the the cat") =>
                Len(matches) = 1 /\ matches[1].text = S("the the"))
        /\ (text = S("that that happened") => matches = <<>>)

\* a word repeated in another case across a newline has been reported
C12_Witness ==
    /\ Returned("_check_repeated_words")
    /\ text = S("The") \o <<NL>> \o S("the")
    /\ Len(matches) = 1
    /\ matches[1].text = text

----------------------------------------------------------------------------
(* missing-space-after-punct: what is reported *)

RECURSIVE Ascending(_)
\* the numbers of A in increasing order
Ascending(A) ==
    IF A = {} THEN <<>>
    ELSE LET least == CHOOSE x \in A : \A y \in A : x <= y
         IN  <<least>> \o Ascending(A \ {least})

\* the offsets of a mark . , ; : ! ? immediately followed by an ASCII letter
MarkThenLetter(t) ==
    {p \in 0..(Len(t) - 2) :
        /\ At(t, p) \in {".", ",", ";", ":", "!", "?"}
        /\ At(t, p + 1) \in Letters}

\* the 10 characters before offset p look like a URL or domain
AfterUrlMarker(t, p) ==
    \E x \in {S("http"), S("www."), S("ftp"), S(".com"), S(".org")} :
        Contains(Lower(Slice(t, IF p > 10 THEN p - 10 ELSE 0, p)), x)

\* a decimal point: a '.' whose preceding character is a digit
DecimalPoint(t, p) == At(t, p) = "." /\ p > 0 /\ At(t, p - 1) \in DigitSet

\* C13: missing-space-after-punct reports one match, in text order, for each
\* mark . , ; : ! ? immediately followed by an ASCII letter that is not excluded
\* (by a URL marker in the 10 characters before, or as a decimal point); the
\* matched text is the two characters and the suggestion is the mark, a space
\* and the letter: 'Hello,world' yields one match, ',w' with ', w'.
C13_MarkThenLetterReported ==
    Returned("_check_missing_space_after_punct") =>
        LET at == Ascending({p \in MarkThenLetter(text) :
                                ~AfterUrlMarker(text, p) /\ ~DecimalPoint(text, p)})
        IN  /\ Len(matches) = Len(at)
            /\ \A k \in DOMAIN matches :
                /\ matches[k].text = <<At(text, at[k]), At(text, at[k] + 1)>>
                /\ matches[k].suggestion = <<At(text, at[k]), SP, At(text, at[k] + 1)>>
                /\ matches[k].location = S("Line ") \o Str(LineOf(text, at[k]))
            /\ (text = S("Hello,world") =>
                    /\ Len(matches) = 1
                    /\ matches[1].text = S(",w")
                    /\ matches[1].suggestion = S(", w"))

\* a text with a reported mark on each of two lines and a decimal point that
\* is left alone
C13_Witness ==
    /\ Returned("_check_missing_space_after_punct")
    /\ text = S("x.y") \o <<NL>> \o S("3.w!Z")
    /\ Len(matches) = 2
    /\ matches[2].suggestion = S("! Z")
    /\ matches[2].location = S("Line 2")

\* C14: missing-space-after-punct never reports a '.' whose preceding character
\* is a digit: the matches of a '.' are no more than the '.' followed by a
\* letter and not preceded by a digit, and 'The price is 3.5 dollars' yields
\* none.
C14_DecimalPointNotReported ==
    Returned("_check_missing_space_after_punct") =>
        /\ Cardinality({k \in DOMAIN matches : matches[k].text[1] = "."})
             <= Cardinality({p \in MarkThenLetter(text) :
                                At(text, p) = "." /\ ~DecimalPoint(text, p)})
        /\ (text = S("The price is 3.5 dollars") => matches = <<>>)

\* a '.' between a digit and a letter has not been reported
C14_Witness ==
    /\ Returned("_check_missing_space_after_punct")
    /\ text = S("v1.2.b")
    /\ matches = <<>>

----------------------------------------------------------------------------
(* trailing-whitespace *)

\* five lines, two of which end in spaces
FiveLines == S("a ") \o <<NL>> \o S("b") \o <<NL>> \o S("c  ") \o <<NL>> \o S("d") \o <<NL>> \o S("e")

TrailingAlphabet == {SP, NL, "a", CR}

MaxTrailingLen == 5

\* lines that end in whitespace other than a space or a carriage return
TrailingExamples ==
    {<<"a", "U+000C">>, <<"a", "U+000B", NL, "b">>, <<"a", "U+2003", NL, "U+3000">>,
     <<"U+00E9", NL, "b", "U+001F", NL, TAB>>, <<"a", "U+200B", NL, "b">>}

TrailingTexts == {FiveLines} \cup TrailingExamples \cup Strings(TrailingAlphabet, MaxTrailingLen)

CheckTrailingWhitespace(t) ==
    Call("_check_trailing_whitespace", t, _check_trailing_whitespace(t))

NextTrailing == \E t \in TrailingTexts : CheckTrailingWhitespace(t)

SpecTrailing == InitDefault /\ [][NextTrailing]_vars

\* the offsets at which a newline-delimited line of t ends: those of the
\* newlines, and the end of the text
LineEnds(t) == {e \in 0..Len(t) : e = Len(t) \/ At(t, e) = NL}

\* the ends of the lines whose last character is whitespace
LinesEndingInWhitespace(t) ==
    {e \in LineEnds(t) : e > 0 /\ At(t, e - 1) # NL /\ At(t, e - 1) \in Whitespace}

\* C15: trailing-whitespace emits at most one match; it is emitted exactly when
\* at least one newline-delimited line ends in a whitespace character, and its
\* text reports the number of such lines: five lines of which two end in spaces
\* yield one match reporting 2.
C15_OneMatchCountingLines ==
    Returned("_check_trailing_whitespace") =>
        LET n == Cardinality(LinesEndingInWhitespace(text))
        IN  /\ Len(matches) <= 1
            /\ Len(matches) = 1 <=> n > 0
            /\ \A i \in DOMAIN matches :
                matches[i].text = Str(n) \o S(" line(s) with trailing whitespace")
            /\ (text = FiveLines =>
                    /\ Len(matches) = 1
                    /\ matches[1].text = S("2 line(s) with trailing whitespace"))

\* the five-line text has yielded its one match
C15_Witness ==
    /\ Returned("_check_trailing_whitespace")
    /\ text = FiveLines
    /\ Len(matches) = 1
    /\ matches[1].context = S("Found in 2 of 5 lines")

----------------------------------------------------------------------------
(* hidden-characters *)

\* one zero-width space and one non-breaking space
TwoHidden == <<"a", ZWSP, "b", NBSP>>

HiddenAlphabet == {ZWSP, ZWNJ, ZWJ, BOM, NBSP, WJ, "a"}

MaxHiddenLen == 3

HiddenTexts == {TwoHidden} \cup Strings(HiddenAlphabet, MaxHiddenLen)

CheckHiddenCharacters(t) ==
    Call("_check_hidden_characters", t, _check_hidden_characters(t))

NextHidden == \E t \in HiddenTexts : CheckHiddenCharacters(t)

SpecHidden == InitDefault /\ [][NextHidden]_vars

\* the six code points and the names the context gives them
HiddenTypes ==
    {<<ZWSP, S("zero-width space")>>, <<ZWNJ, S("zero-width non-joiner")>>,
     <<ZWJ, S("zero-width joiner")>>, <<BOM, S("byte order mark")>>,
     <<NBSP, S("non-breaking space")>>, <<WJ, S("word joiner")>>}

Occurrences(t, c) == Cardinality({k \in 0..(Len(t) - 1) : At(t, k) = c})

\* the items of a list written with ", " between them
Items(s) ==
    LET parts == split(s, ",")
    IN  [k \in 1..Len(parts) |->
            IF k > 1 /\ parts[k] # <<>> /\ parts[k][1] = SP
            THEN Tail(parts[k]) ELSE parts[k]]

\* C16: hidden-characters emits at most one match; it is emitted exactly when
\* the text has at least one of U+200B, U+200C, U+200D, U+FEFF, U+00A0, U+2060,
\* and its context lists every one of these types that occurs, with its exact
\* count, and no type that does not occur: one zero-width space and one
\* non-breaking space yield one match naming both with counts 1 and 1.
C16_OneMatchListingTypes ==
    Returned("_check_hidden_characters") =>
        LET present == {h \in HiddenTypes : Occurrences(text, h[1]) > 0}
            expected == {h[2] \o S(": ") \o Str(Occurrences(text, h[1])) : h \in present}
        IN  /\ Len(matches) <= 1
            /\ Len(matches) = 1 <=> present # {}
            /\ \A i \in DOMAIN matches :
                LET items == Items(matches[i].context)
                IN  /\ Range(items) = expected
                    /\ Len(items) = Cardinality(expected)
            /\ (text = TwoHidden =>
                    /\ Len(matches) = 1
                    /\ matches[1].context =
                         S("zero-width space: 1, non-breaking space: 1"))

\* a text with two zero-width joiners and a word joiner has yielded the match
\* that lists them
C16_Witness ==
    /\ Returned("_check_hidden_characters")
    /\ text = <<ZWJ, WJ, ZWJ>>
    /\ Len(matches) = 1
    /\ matches[1].context = S("zero-width joiner: 2, word joiner: 1")

----------------------------------------------------------------------------
(* Point findings *)

\* a location of the form 'Line N' or 'Line N, position P'
IsPointFinding(m) == StartsAt(m.location, 0, S("Line "))

\* the location names the line of offset p
LocatedAt(m, t, p) ==
    \/ m.location = S("Line ") \o Str(LineOf(t, p))
    \/ m.location = S("Line ") \o Str(LineOf(t, p)) \o S(", position ") \o Str(p)

\* ctx is a piece of t around t[p:e], with '...' where it was cut
IsContextOf(ctx, t, p, e) ==
    \E a \in 0..p, b \in e..Len(t) :
        ctx = (IF a > 0 THEN S("...") ELSE <<>>) \o Slice(t, a, b)
                \o (IF b < Len(t) THEN S("...") ELSE <<>>)

\* C17: for every point finding (location 'Line N' or 'Line N, position P') the
\* matched text is the literal substring of the input at the match span and the
\* context is surrounding input text that contains that substring, with '...'
\* where it was truncated.
C17_PointFindingQuotesInput ==
    Returned("check_all") =>
        \A i \in DOMAIN matches :
            IsPointFinding(matches[i]) =>
                \E p \in 0..Len(text) :
                    /\ StartsAt(text, p, matches[i].text)
                    /\ LocatedAt(matches[i], text, p)
                    /\ IsContextOf(matches[i].context, text, p, p + Len(matches[i].text))

----------------------------------------------------------------------------
(* Category and severity *)

\* the category and the severity of each rule
FixedCategory ==
    [id \in Registered |->
        CASE id = "repeated-words" -> "grammar"
          [] id \in {"double-spaces", "missing-space-after-punct", "space-before-punct"}
                -> "spacing"
          [] OTHER -> "formatting"]

FixedSeverity ==
    [id \in Registered |->
        CASE id \in {"repeated-words", "unclosed-brackets"} -> "high"
          [] id \in {"double-spaces", "missing-space-after-punct", "space-before-punct",
                     "hidden-characters"} -> "medium"
          [] OTHER -> "low"]

\* C18: every match of every output carries the category and the severity
\* fixed for its rule_id, whatever the text: the category is one of spelling,
\* grammar, spacing, formatting, the severity one of high, medium, low, an
\* unclosed-brackets match is high whatever the imbalance and a
\* hidden-characters match is medium whatever was found.
C18_StaticCategoryAndSeverity ==
    Returned("check_all") =>
        \A i \in DOMAIN matches :
            /\ matches[i].category = FixedCategory[matches[i].rule_id]
            /\ matches[i].severity = FixedSeverity[matches[i].rule_id]
            /\ matches[i].category \in Categories
            /\ matches[i].severity \in Severities
            /\ (matches[i].rule_id = "unclosed-brackets" => matches[i].severity = "high")
            /\ (matches[i].rule_id = "hidden-characters" => matches[i].severity = "medium")

\* an imbalance of two and hidden characters in one output, with matches of
\* other rules
C18_Witness ==
    /\ Returned("check_all")
    /\ \E i, k \in DOMAIN matches :
        /\ matches[i].text = S("2 unclosed '('")
        /\ matches[k].rule_id = "hidden-characters"
        /\ matches[k].context = S("zero-width space: 2")
    /\ \E j \in DOMAIN matches : matches[j].severity = "low"

----------------------------------------------------------------------------
(* multiple-blank-lines *)

BlankAlphabet == {NL, "a"}

MaxBlankLen == 8

BlankTexts == Strings(BlankAlphabet, MaxBlankLen)

CheckMultipleBlankLines(t) ==
    Call("_check_multiple_blank_lines", t, _check_multiple_blank_lines(t))

NextBlank == \E t \in BlankTexts : CheckMultipleBlankLines(t)

SpecBlank == InitDefault /\ [][NextBlank]_vars

\* the maximal runs of three or more newlines
LongNewlineRuns(t) == {se \in MaximalRuns(t, {NL}) : se[2] - se[1] >= 3}

\* C19: multiple-blank-lines reports exactly one match for each maximal run of
\* three or more newlines and none for runs of one or two, and the count of
\* blank lines in the match is the length of the run minus one.
C19_OneMatchPerNewlineRun ==
    Returned("_check_multiple_blank_lines") =>
        LET runs == Ascending({se[1] : se \in LongNewlineRuns(text)})
            length(s) == (CHOOSE se \in LongNewlineRuns(text) : se[1] = s)[2] - s
        IN  /\ Len(matches) = Len(runs)
            /\ \A k \in DOMAIN matches :
                /\ matches[k].text =
                     Str(length(runs[k]) - 1) \o S(" consecutive blank lines")
                /\ matches[k].location = S("Line ") \o Str(LineOf(text, runs[k]))

\* a run of three and a run of four newlines have been reported, in order
C19_Witness ==
    /\ Returned("_check_multiple_blank_lines")
    /\ text = <<NL, NL, NL, "a", NL, NL, NL, NL>>
    /\ Len(matches) = 2
    /\ matches[1].text = S("2 consecutive blank lines")
    /\ matches[2].text = S("3 consecutive blank lines")
    /\ matches[2].location = S("Line 4")

----------------------------------------------------------------------------
(* double-hyphen-emdash *)

HyphenAlphabet == {"a", "-", SP}

MaxHyphenLen == 7

\* word characters and whitespace outside ASCII around the hyphens
HyphenExamples ==
    {<<"U+00E9", "t", "U+00E9">> \o S("--hiver"), <<"a", "-", "-", "U+000C", "b">>,
     <<"a", "U+2003", "-", "-", "U+00B2", "-", "-", "c">>, <<"a", "-", "-", "U+2014">>}

HyphenTexts == HyphenExamples \cup Strings(HyphenAlphabet, MaxHyphenLen)

CheckDoubleHyphenEmdash(t) ==
    Call("_check_double_hyphen_emdash", t, _check_double_hyphen_emdash(t))

NextHyphen == \E t \in HyphenTexts : CheckDoubleHyphenEmdash(t)

SpecHyphen == InitDefault /\ [][NextHyphen]_vars

\* the offsets of the '--' that a word character precedes and a word character
\* follows, whitespace apart
FlankedDoubleHyphens(t) ==
    {p \in 0..(Len(t) - 2) :
        /\ At(t, p) = "-" /\ At(t, p + 1) = "-"
        /\ \E a \in 0..(p - 1) :
            /\ At(t, a) \in WordChars
            /\ \A k \in (a + 1)..(p - 1) : At(t, k) \in Whitespace
        /\ \E b \in (p + 2)..(Len(t) - 1) :
            /\ At(t, b) \in WordChars
            /\ \A k \in (p + 2)..(b - 1) : At(t, k) \in Whitespace}

\* C20: double-hyphen-emdash reports one match per occurrence: the number of
\* matches is the number of '--' preceded, after optional whitespace, by a word
\* character and followed, after optional whitespace, by a word character, and
\* each suggestion is the two flanking word characters joined by an em-dash.
C20_OneMatchPerDoubleHyphen ==
    Returned("_check_double_hyphen_emdash") =>
        /\ Len(matches) = Cardinality(FlankedDoubleHyphens(text))
        /\ \A i \in DOMAIN matches :
            /\ Len(matches[i].suggestion) = 3
            /\ matches[i].suggestion[1] = Head(matches[i].text)
            /\ matches[i].suggestion[1] \in WordChars
            /\ matches[i].suggestion[2] = EMDASH
            /\ matches[i].suggestion[3] = matches[i].text[Len(matches[i].text)]
            /\ matches[i].suggestion[3] \in WordChars

----------------------------------------------------------------------------
(* C21: rule ids and rule names *)

\* a text whose brackets are unbalanced both ways and whose quotes trigger
\* both reports of inconsistent-quotes
BothWays == S("(]") \o <<TAB, DQ>> \o Rep(<<SQ>>, 4) \o Rep(triple_quoted, 4)

NameTexts == Texts \cup BracketTexts \cup QuoteTexts \cup {BothWays}

NextNames == \E t \in NameTexts : CheckAll(t)

SpecNames == InitDefault /\ [][NextNames]_vars

\* the rule_name literal of the ten checks that have a single one
FixedName ==
    [id \in Registered \ {"unclosed-brackets", "inconsistent-quotes"} |->
        CASE id = "double-spaces" -> "Double Spaces"
          [] id = "repeated-words" -> "Repeated Word"
          [] id = "missing-space-after-punct" -> "Missing Space After Punctuation"
          [] id = "space-before-punct" -> "Space Before Punctuation"
          [] id = "trailing-whitespace" -> "Trailing Whitespace"
          [] id = "multiple-blank-lines" -> "Multiple Blank Lines"
          [] id = "tab-characters" -> "Tab Characters"
          [] id = "double-hyphen-emdash" -> "Double Hyphen Instead of Em-Dash"
          [] id = "hidden-characters" -> "Hidden Characters"
          [] id = "straight-vs-curly-quotes" -> "Straight Quotes Only"]

\* the character an unclosed-brackets match reports in excess
ExcessChar(m) == m.text[Len(m.text) - 1]

\* C21 (as stated): in the list check_all returns, matches that bear the same
\* rule_id carry the same rule_name.
C21_OneNamePerRuleId ==
    Returned("check_all") =>
        \A i, j \in DOMAIN matches :
            matches[i].rule_id = matches[j].rule_id
                => matches[i].rule_name = matches[j].rule_name

\* C21 (amended): the rule_name of a match is fixed by its rule_id for ten of
\* the twelve checks; an unclosed-brackets match is named "Unclosed Bracket"
\* when an opening character is in excess and "Extra Closing Bracket" when a
\* closing one is, and an inconsistent-quotes match is named "Inconsistent
\* Double Quotes" when it reports double quotes and "Inconsistent Single
\* Quotes/Apostrophes" when it reports apostrophes.
C21_NameByRuleIdAndDirection ==
    Returned("check_all") =>
        \A i \in DOMAIN matches :
            LET m == matches[i]
            IN  CASE m.rule_id = "unclosed-brackets" ->
                        m.rule_name = (IF ExcessChar(m) \in {"(", "[", "{"}
                                       THEN "Unclosed Bracket"
                                       ELSE "Extra Closing Bracket")
                  [] m.rule_id = "inconsistent-quotes" ->
                        m.rule_name = (IF StartsAt(m.text, 0, S("Mix of \""))
                                       THEN "Inconsistent Double Quotes"
                                       ELSE "Inconsistent Single Quotes/Apostrophes")
                  [] OTHER -> m.rule_name = FixedName[m.rule_id]

C21_Witness ==
    /\ Returned("check_all")
    /\ \E i, j, k, l \in DOMAIN matches :
        /\ matches[i].rule_name = "Unclosed Bracket"
        /\ matches[j].rule_name = "Extra Closing Bracket"
        /\ matches[k].rule_name = "Inconsistent Double Quotes"
        /\ matches[l].rule_name = "Inconsistent Single Quotes/Apostrophes"
    /\ \E i \in DOMAIN matches : matches[i].rule_name = "Tab Characters"

----------------------------------------------------------------------------
(* C25: the context window *)

\* a call of a method outside check_all: its text argument t, its other
\* arguments a, and the value r it returns
Invoke(method, t, a, r) ==
    /\ pc = "idle"
    /\ pc' = "returned"
    /\ op' = method
    /\ text' = t
    /\ args' = a
    /\ outcome' = r
    /\ UNCHANGED <<disabled_rules, ctor, earlier, idx, matches, calls>>

ContextAlphabet == LowerLetters \o UpperLetters \o Digits

\* a text of n characters none of which is a full stop
ContextText(n) == [k \in 1..n |-> ContextAlphabet[((k - 1) % Len(ContextAlphabet)) + 1]]

MaxContextLen == 33

\* short texts, and two long enough to be cut on both sides
ContextLens ==
    (0..MaxContextLen) \cup {2 * context_chars + 2, 2 * context_chars + 5}

GetContext(t, start, end) ==
    Invoke("_get_context", t, [start |-> start, end |-> end],
           _get_context(t, start, end))

NextContext ==
    \E n \in ContextLens : \E start \in 0..n : \E end \in start..n :
        GetContext(ContextText(n), start, end)

SpecContext == InitDefault /\ [][NextContext]_vars

\* C25: _get_context returns the window from max(0, start-30) to
\* min(len, end+30), with "..." in front exactly when the window begins after
\* offset 0 and "..." behind exactly when it ends before the end of the text;
\* the result contains text[start:end], also for spans at offset 0 and at the
\* end of the text.
C25_ContextWindow ==
    Returned("_get_context") =>
        LET lo == IF args.start >= 30 THEN args.start - 30 ELSE 0
            hi == IF Len(text) - args.end >= 30 THEN args.end + 30 ELSE Len(text)
            front == IF lo > 0 THEN 3 ELSE 0
            back == IF hi < Len(text) THEN 3 ELSE 0
        IN  /\ Len(outcome) = front + (hi - lo) + back
            /\ \A k \in 1..(hi - lo) : outcome[front + k] = text[lo + k]
            /\ \A k \in 1..front : outcome[k] = "."
            /\ \A k \in 1..back : outcome[front + (hi - lo) + k] = "."
            /\ StartsAt(outcome, 0, S("...")) <=> lo > 0
            /\ (Len(outcome) >= 3 /\ StartsAt(outcome, Len(outcome) - 3, S("...")))
                    <=> hi < Len(text)
            /\ StartsAt(outcome, front + (args.start - lo),
                        Slice(text, args.start, args.end))

\* a span in the middle of a long text: the window is cut on both sides
C25_Witness ==
    /\ Returned("_get_context")
    /\ args.start > 30
    /\ args.start < args.end
    /\ args.end + 30 < Len(text)
    /\ Len(outcome) = 3 + 30 + (args.end - args.start) + 30 + 3

----------------------------------------------------------------------------
(* C26: line numbers *)

LineAlphabet == {NL, SP, "a"}

MaxLineLen == 5

LineTexts == Strings(LineAlphabet, MaxLineLen)

GetLineNumber(t, position) ==
    Invoke("_get_line_number", t, [position |-> position], _get_line_number(t, position))

NextLines ==
    \E t \in LineTexts :
        \/ \E position \in 0..Len(t) : GetLineNumber(t, position)
        \/ CheckDoubleSpaces(t)
        \/ CheckMultipleBlankLines(t)

SpecLines == InitDefault /\ [][NextLines]_vars

\* the number of newline characters of t strictly before offset p
NewlinesBefore(t, p) == Cardinality({k \in 1..p : t[k] = NL})

\* C26: the line number of an offset, and so the N in the location of a point
\* finding, is 1 plus the number of newlines strictly before the offset: at
\* least 1, at most the number of newlines of the text plus 1, and a newline at
\* the offset itself is not counted.
C26_LineNumber ==
    /\ Returned("_get_line_number") =>
        /\ outcome = 1 + NewlinesBefore(text, args.position)
        /\ outcome >= 1
        /\ outcome <= NewlinesBefore(text, Len(text)) + 1
        /\ (args.position < Len(text) /\ text[args.position + 1] = NL
                => outcome = NewlinesBefore(text, args.position + 1))
    /\ Returned("_check_double_spaces") =>
        \A i \in DOMAIN matches :
            \E p \in 0..(Len(text) - 1), N \in 1..(NewlinesBefore(text, Len(text)) + 1) :
                /\ matches[i].location =
                     S("Line ") \o Str(N) \o S(", position ") \o Str(p)
                /\ N = 1 + NewlinesBefore(text, p)
                /\ text[p + 1] = SP
    /\ Returned("_check_multiple_blank_lines") =>
        LET starts == Ascending({se[1] : se \in LongNewlineRuns(text)})
        IN  \A i \in DOMAIN matches :
                /\ i <= Len(starts)
                /\ text[starts[i] + 1] = NL
                /\ matches[i].location =
                     S("Line ") \o Str(1 + NewlinesBefore(text, starts[i]))

\* the line number of the offset of a newline on the second line
C26_Witness ==
    /\ Returned("_get_line_number")
    /\ args.position > 0
    /\ args.position < Len(text)
    /\ text[args.position + 1] = NL
    /\ outcome = 2

----------------------------------------------------------------------------
(* C27: the URL lookback of missing-space-after-punct *)

LookbackLeads == {<<>>, S("ab ")}

\* the five markers in several spellings, and two near misses
LookbackMarkers ==
    {S("http"), S("HTTP"), S("www."), S("Www."), S("ftp"), S(".com"), S(".ORG"),
     S("htt"), S("www")}

MaxFiller == 8

\* a marker, some filler, and a comma followed by a letter
LookbackTexts ==
    {lead \o x \o Rep(<<"x">>, k) \o S(",w") :
        lead \in LookbackLeads, x \in LookbackMarkers, k \in 0..MaxFiller}

NextLookback == \E t \in LookbackTexts : CheckMissingSpaceAfterPunct(t)

SpecLookback == InitDefault /\ [][NextLookback]_vars

\* one of the markers, in any case, lies entirely within the at most 10
\* characters immediately before offset p
MarkerWithin(t, p) ==
    \E x \in {S("http"), S("www."), S("ftp"), S(".com"), S(".org")} :
        \E a \in 0..p :
            /\ a >= p - 10
            /\ a + Len(x) <= p
            /\ StartsAtFold(t, a, x)

\* C27: a mark-letter pair (that is not a decimal point) is skipped exactly
\* when a marker http, www., ftp, .com or .org occurs, in any case, entirely
\* within the at most 10 characters immediately before the mark; a marker that
\* begins more than 10 characters before the mark does not exclude the pair.
C27_BoundedLookback ==
    Returned("_check_missing_space_after_punct") =>
        LET pairs == {p \in MarkThenLetter(text) : ~DecimalPoint(text, p)}
            kept == Ascending({p \in pairs : ~MarkerWithin(text, p)})
        IN  /\ Len(matches) = Len(kept)
            /\ \A k \in DOMAIN matches :
                /\ matches[k].text = <<At(text, kept[k]), At(text, kept[k] + 1)>>
                /\ matches[k].location = S("Line ") \o Str(LineOf(text, kept[k]))

\* "http" begins 11 characters before the comma: the pair is reported
C27_Witness ==
    /\ Returned("_check_missing_space_after_punct")
    /\ text = S("httpxxxxxxx,w")
    /\ Len(matches) = 1
    /\ matches[1].text = S(",w")

----------------------------------------------------------------------------
(* C28: chains of a repeated word *)

ChainWords == {S("the"), S("a"), S("that"), <<"U+00E9", "t", "U+00C9">>}

ChainSeparators == {<<SP>>, <<NL>>, <<SP, SP>>, S(", "), <<"U+000C">>}

ChainTails == {<<>>, S(" The"), S("  cat cat")}

MaxRepeats == 6

\* word, written n times with sep between the copies
Chain(word, sep, n) ==
    IF n = 0 THEN <<>> ELSE word \o Rep(sep \o word, n - 1)

ChainTexts ==
    {Chain(word, sep, n) \o tail :
        word \in ChainWords, sep \in ChainSeparators, n \in 0..MaxRepeats,
        tail \in ChainTails}

NextChains == \E t \in ChainTexts : CheckRepeatedWords(t)

SpecChains == InitDefault /\ [][NextChains]_vars

\* the spans <<s, e>> that repeated-words is to report: the words of t are
\* grouped into maximal chains of the same word, case ignored, separated only
\* by whitespace; in each chain of a word outside the stoplist the 1st and 2nd
\* word form a span, the 3rd and 4th the next, and so on
ChainPairs(t) ==
    LET runs == MaximalRuns(t, WordChars)
        W == Ascending({w[1] : w \in runs})
        stop(i) == CHOOSE e \in {w[2] : w \in {r \in runs : r[1] = W[i]}} : TRUE
        word(i) == Lower(Slice(t, W[i], stop(i)))
        link(i) ==
            /\ i < Len(W)
            /\ \A k \in stop(i)..(W[i + 1] - 1) : At(t, k) \in Whitespace
            /\ SameIgnoringCase(Slice(t, W[i], stop(i)), Slice(t, W[i + 1], stop(i + 1)))
        first(i) ==
            CHOOSE j \in 1..i :
                /\ \A m \in j..(i - 1) : link(m)
                /\ (j = 1 \/ ~link(j - 1))
        paired == {i \in DOMAIN W :
                      /\ link(i)
                      /\ (i - first(i)) % 2 = 0
                      /\ word(i) \notin
                           {S("that"), S("had"), S("very"), S("really"), S("blah")}}
    IN  [k \in 1..Cardinality(paired) |->
            LET i == Ascending(paired)[k] IN <<W[i], stop(i + 1)>>]

\* C28: the matches of repeated-words do not overlap: a word outside the
\* stoplist written n times in a row, with only whitespace between, yields
\* floor(n/2) matches, the 1st with the 2nd copy, the 3rd with the 4th, and so
\* on; 'the the the' yields exactly one match.
C28_ChainsYieldHalf ==
    Returned("_check_repeated_words") =>
        LET pairs == ChainPairs(text)
        IN  /\ Len(matches) = Len(pairs)
            /\ \A k \in DOMAIN matches :
                matches[k].text = Slice(text, pairs[k][1], pairs[k][2])
            /\ \A k \in 1..(Len(pairs) - 1) : pairs[k][2] < pairs[k + 1][1]
            /\ \A n \in 0..MaxRepeats :
                /\ (text = Chain(S("the"), <<SP>>, n) => Len(matches) = n \div 2)
                /\ (text = Chain(S("a"), <<NL>>, n) => Len(matches) = n \div 2)
                /\ (text = Chain(S("that"), <<SP>>, n) => Len(matches) = 0)
            /\ (text = S("the the the") => Len(matches) = 1)

\* five copies in a row have yielded two matches
C28_Witness ==
    /\ Returned("_check_repeated_words")
    /\ text = S("the the the the the")
    /\ Len(matches) = 2
    /\ matches[1].text = S("the the")
    /\ matches[2].text = S("the the")

----------------------------------------------------------------------------
(* Python values.  What json.loads returns, and what the converters of         *)
(* QualityAnalyzer read, is a dict, list, str, int, float, bool or None; a     *)
(* value carries its type.  A dict is the sequence of its <<key, value>>       *)
(* items in insertion order, keys distinct; a float is a Float, below.         *)

PyBool(b) == [type |-> "bool", v |-> b]

PyInt(n) == [type |-> "int", v |-> n]

PyFloat(x) == [type |-> "float", v |-> x]

PyStr(s) == [type |-> "str", v |-> s]

PyDict(items) == [type |-> "dict", v |-> items]

\* an exception of class cls leaving a call
Raise(cls) == [type |-> "raise", v |-> cls]

IsRaise(x) == x.type = "raise"

\* key in d, for a dict d
HasKey(d, key) == \E i \in DOMAIN d.v : d.v[i][1] = key

\* d.get(key, default), for a dict d and an ASCII literal key
get(d, key, default) ==
    IF HasKey(d, S(key))
    THEN d.v[CHOOSE i \in DOMAIN d.v : d.v[i][1] = S(key)][2]
    ELSE default

\* d[key] = value, for a dict d
setitem(d, key, value) ==
    IF HasKey(d, key)
    THEN PyDict([i \in DOMAIN d.v |-> IF d.v[i][1] = key THEN <<key, value>> ELSE d.v[i]])
    ELSE PyDict(Append(d.v, <<key, value>>))

\* the list of the values a for loop over x visits, or the TypeError of iter(x)
iterate(x) ==
    CASE x.type = "list" -> x
      [] x.type = "dict" -> PyList([i \in DOMAIN x.v |-> PyStr(x.v[i][1])])
      [] x.type = "str" -> PyList([i \in DOMAIN x.v |-> PyStr(<<x.v[i]>>)])
      [] OTHER -> Raise("TypeError")

\* bool(x)
truthy(x) ==
    CASE x.type = "NoneType" -> FALSE
      [] x.type = "bool" -> x.v
      [] x.type = "int" -> x.v # 0
      [] x.type = "float" -> x.v.kind # "finite" \/ x.v.man # <<>>
      [] OTHER -> x.v # <<>>

----------------------------------------------------------------------------
(* Natural numbers of any size.  The significand of a float and the powers   *)
(* of two and ten that its conversions need do not fit in an integer of      *)
(* TLC: such a number is the sequence of its digits in base 10000, the       *)
(* least significant first and the most significant not 0; 0 is <<>>.        *)

Base == 10000

RECURSIVE Trim(_)
\* a without its most significant digits that are 0
Trim(a) == IF a # <<>> /\ a[Len(a)] = 0 THEN Trim(SubSeq(a, 1, Len(a) - 1)) ELSE a

\* digit i of a
Limb(a, i) == IF i <= Len(a) THEN a[i] ELSE 0

RECURSIVE MulFrom(_, _, _, _)
\* the digits from the i-th on of a * k + carry
MulFrom(a, k, i, carry) ==
    IF i > Len(a) THEN (IF carry = 0 THEN <<>> ELSE <<carry>>)
    ELSE <<(a[i] * k + carry) % Base>>
            \o MulFrom(a, k, i + 1, (a[i] * k + carry) \div Base)

\* a * k + c, for k in 0..Base and c in 0..(Base - 1)
MulAdd(a, k, c) == IF k = 0 THEN Trim(<<c>>) ELSE MulFrom(a, k, 1, c)

RECURSIVE AddFrom(_, _, _, _)
\* the digits from the i-th on of a + b + carry
AddFrom(a, b, i, carry) ==
    IF i > Len(a) /\ i > Len(b) THEN (IF carry = 0 THEN <<>> ELSE <<carry>>)
    ELSE <<(Limb(a, i) + Limb(b, i) + carry) % Base>>
            \o AddFrom(a, b, i + 1, (Limb(a, i) + Limb(b, i) + carry) \div Base)

\* a + b
Add(a, b) == AddFrom(a, b, 1, 0)

RECURSIVE SubFrom(_, _, _, _)
\* the digits from the i-th on of a - b - borrow
SubFrom(a, b, i, borrow) ==
    IF i > Len(a) THEN <<>>
    ELSE <<(a[i] - Limb(b, i) - borrow + Base) % Base>>
            \o SubFrom(a, b, i + 1, IF a[i] - Limb(b, i) - borrow < 0 THEN 1 ELSE 0)

\* a - b, for a >= b
Sub(a, b) == Trim(SubFrom(a, b, 1, 0))

\* a < b
Less(a, b) ==
    \/ Len(a) < Len(b)
    \/ /\ Len(a) = Len(b)
       /\ \E i \in DOMAIN a : a[i] < b[i] /\ \A j \in (i + 1)..Len(a) : a[j] = b[j]

\* a * 10 ^ n
TimesTen(a, n) ==
    IF a = <<>> THEN <<>>
    ELSE [i \in 1..(n \div 4) |-> 0] \o MulAdd(a, 10 ^ (n % 4), 0)

RECURSIVE TimesTwo(_, _)
\* a * 2 ^ n
TimesTwo(a, n) ==
    IF n >= 13 THEN TimesTwo(MulAdd(a, 8192, 0), n - 13) ELSE MulAdd(a, 2 ^ n, 0)

\* the value of a decimal digit
DigitValue(c) == CHOOSE d \in 0..9 : Digits[d + 1] = c

\* the value of the decimal digit at place p of digits, 0 before its first
DigitAt(digits, p) == IF p >= 1 THEN DigitValue(digits[p]) ELSE 0

\* the number that a run of decimal digits writes
Natural(digits) ==
    Trim([i \in 1..((Len(digits) + 3) \div 4) |->
            DigitAt(digits, Len(digits) - 4 * i + 4)
                + 10 * DigitAt(digits, Len(digits) - 4 * i + 3)
                + 100 * DigitAt(digits, Len(digits) - 4 * i + 2)
                + 1000 * DigitAt(digits, Len(digits) - 4 * i + 1)])

\* the number of decimal digits of a
DecimalLen(a) == IF a = <<>> THEN 0 ELSE 4 * (Len(a) - 1) + Len(Str(a[Len(a)]))

----------------------------------------------------------------------------
(* float.  A float is an IEEE 754 double: a nan, an infinity, or the finite  *)
(* number (-1)^sign * man * 2^exp with man below 2^53, and at least 2^52     *)
(* unless exp is the least exponent; a zero has man 0 and exp 0.             *)

\* sys.float_info
mant_dig == 53

max_exp == 1024

min_exp == -1021

\* the greatest and the least exponent of an integer significand
MaxExp == max_exp - mant_dig

MinExp == min_exp - mant_dig

Float(kind, sign, man, exp) == [kind |-> kind, sign |-> sign, man |-> man, exp |-> exp]

Zero(sign) == Float("finite", sign, <<>>, 0)

Infinity(sign) == Float("inf", sign, <<>>, 0)

NaN == Float("nan", 0, <<>>, 0)

\* 2^52, the least significand of a normal float, and 2^53
TwoTo52 == TimesTwo(<<1>>, mant_dig - 1)

TwoTo53 == TimesTwo(<<1>>, mant_dig)

RECURSIVE Scaled(_, _, _)
\* a, c and e rescaled with (a / c) * 2^e unchanged, until a / c is in
\* [1/2, 1) or e is the least exponent: <<a, c, e>>
Scaled(a, c, e) ==
    IF ~Less(a, MulAdd(c, 8192, 0)) THEN Scaled(a, MulAdd(c, 8192, 0), e + 13)
    ELSE IF ~Less(a, c) THEN Scaled(a, MulAdd(c, 2, 0), e + 1)
    ELSE IF e - 13 >= MinExp /\ Less(MulAdd(a, 8192, 0), c)
    THEN Scaled(MulAdd(a, 8192, 0), c, e - 13)
    ELSE IF e > MinExp /\ Less(MulAdd(a, 2, 0), c) THEN Scaled(MulAdd(a, 2, 0), c, e - 1)
    ELSE <<a, c, e>>

RECURSIVE Quotient(_, _, _, _)
\* q followed by the first n binary digits of a / c, a < c, and what is left
\* of a: <<quotient, remainder>>
Quotient(a, c, n, q) ==
    IF n = 0 THEN <<q, a>>
    ELSE IF Less(MulAdd(a, 2, 0), c)
    THEN Quotient(MulAdd(a, 2, 0), c, n - 1, MulAdd(q, 2, 0))
    ELSE Quotient(Sub(MulAdd(a, 2, 0), c), c, n - 1, MulAdd(q, 2, 1))

\* the float nearest to (q + r / c) * 2^e, a tie going to the even significand
Rounded(sign, q, r, c, e) ==
    IF Less(c, MulAdd(r, 2, 0)) \/ (MulAdd(r, 2, 0) = c /\ Limb(q, 1) % 2 = 1)
    THEN IF Add(q, <<1>>) = TwoTo53
         THEN (IF e + 1 > MaxExp THEN Infinity(sign) ELSE Float("finite", sign, TwoTo52, e + 1))
         ELSE (IF e > MaxExp THEN Infinity(sign) ELSE Float("finite", sign, Add(q, <<1>>), e))
    ELSE IF q = <<>> THEN Zero(sign)
    ELSE IF e > MaxExp THEN Infinity(sign)
    ELSE Float("finite", sign, q, e)

\* the float nearest to a / c
Nearest(sign, a, c) ==
    LET scaled == Scaled(a, c, -mant_dig)
        divided == Quotient(scaled[1], scaled[2], mant_dig, <<>>)
    IN  Rounded(sign, divided[1], divided[2], scaled[2], scaled[3])

\* the decimal exponents from which every number is an infinity, and up to
\* which every number is a zero
max_10_exp == 308

min_subnormal_10_exp == -324

\* the float nearest to digits * 10^exp, digits without a zero at either end
Decimal(sign, digits, exp) ==
    IF digits = <<>> THEN Zero(sign)
    ELSE IF Len(digits) + exp > max_10_exp + 1 THEN Infinity(sign)
    ELSE IF Len(digits) + exp <= min_subnormal_10_exp THEN Zero(sign)
    ELSE Nearest(sign,
                 TimesTen(Natural(digits), IF exp > 0 THEN exp ELSE 0),
                 TimesTen(<<1>>, IF exp < 0 THEN -exp ELSE 0))

\* the exponents that a numeral writes are kept within this
exp_limit == 1000000000

\* the value of a run of decimal digits, at most exp_limit
Exponent(digits) ==
    IF Len(digits) - RunEnd(digits, 0, {"0"}) > 9 THEN exp_limit
    ELSE LET value[k \in 0..Len(digits)] ==
                 IF k = 0 THEN 0 ELSE 10 * value[k - 1] + DigitValue(digits[k])
         IN  value[Len(digits)]

\* float(numeral), for a numeral of JSON with a fraction or an exponent
float_of(numeral) ==
    LET sign == IF numeral[1] = "-" THEN 1 ELSE 0
        e == IF \E i \in DOMAIN numeral : numeral[i] \in {"e", "E"}
             THEN CHOOSE i \in DOMAIN numeral : numeral[i] \in {"e", "E"}
             ELSE Len(numeral) + 1
        point == IF \E i \in DOMAIN numeral : numeral[i] = "."
                 THEN CHOOSE i \in DOMAIN numeral : numeral[i] = "."
                 ELSE e
        written == SubSeq(numeral, sign + 1, point - 1) \o SubSeq(numeral, point + 1, e - 1)
        exp == IF e > Len(numeral) THEN 0
               ELSE IF numeral[e + 1] = "-" THEN -Exponent(SubSeq(numeral, e + 2, Len(numeral)))
               ELSE IF numeral[e + 1] = "+" THEN Exponent(SubSeq(numeral, e + 2, Len(numeral)))
               ELSE Exponent(SubSeq(numeral, e + 1, Len(numeral)))
        first == RunEnd(written, 0, {"0"}) + 1
        last == IF first > Len(written) THEN 0
                ELSE CHOOSE k \in first..Len(written) :
                        written[k] # "0" /\ \A j \in (k + 1)..Len(written) : written[j] = "0"
    IN  Decimal(sign, SubSeq(written, first, last),
                exp - (IF point < e THEN e - 1 - point ELSE 0) + (Len(written) - last))

RECURSIVE Generate(_, _, _, _, _)
\* the digits after the point of the shortest decimal within the rounding
\* interval of r / s, which reaches mm / s below and mp / s above it and holds
\* its ends when even; of two decimals as short the nearer, and of two as near
\* the one whose last digit is even
Generate(r, s, mp, mm, even) ==
    LET d == Cardinality({j \in 1..9 : ~Less(MulAdd(r, 10, 0), MulAdd(s, j, 0))})
        rest == Sub(MulAdd(r, 10, 0), MulAdd(s, d, 0))
        above == Add(rest, MulAdd(mp, 10, 0))
    IN  IF even /\ above = s
        THEN (IF Less(MulAdd(mm, 10, 0), rest) THEN <<Digits[d + 2]>> ELSE <<Digits[d + 1]>>)
        ELSE IF Less(rest, MulAdd(mm, 10, 0)) \/ (even /\ rest = MulAdd(mm, 10, 0))
        THEN (IF /\ Less(s, above)
                 /\ \/ Less(s, MulAdd(rest, 2, 0))
                    \/ (MulAdd(rest, 2, 0) = s /\ d % 2 = 1)
              THEN <<Digits[d + 2]>> ELSE <<Digits[d + 1]>>)
        ELSE IF Less(s, above) THEN <<Digits[d + 2]>>
        ELSE <<Digits[d + 1]>> \o Generate(rest, s, MulAdd(mp, 10, 0), MulAdd(mm, 10, 0), even)

RECURSIVE Fixup(_, _, _, _, _, _)
\* the digits and the place of the point, k, once 10^k is the least power of
\* ten above the rounding interval: <<digits, k>>
Fixup(r, s, mp, mm, k, even) ==
    IF (IF even THEN ~Less(Add(r, mp), s) ELSE Less(s, Add(r, mp)))
    THEN Fixup(r, MulAdd(s, 10, 0), mp, mm, k + 1, even)
    ELSE IF (IF even THEN Less(MulAdd(Add(r, mp), 10, 0), s)
             ELSE ~Less(s, MulAdd(Add(r, mp), 10, 0)))
    THEN Fixup(MulAdd(r, 10, 0), s, MulAdd(mp, 10, 0), MulAdd(mm, 10, 0), k - 1, even)
    ELSE <<Generate(r, s, mp, mm, even), k>>

\* Fixup from a first guess k of the place of the point
Estimated(r, s, mp, mm, k, even) ==
    IF k >= 0 THEN Fixup(r, TimesTen(s, k), mp, mm, k, even)
    ELSE Fixup(TimesTen(r, -k), s, TimesTen(mp, -k), TimesTen(mm, -k), k, even)

\* the shortest decimal that float() reads back as man * 2^exp, nearest to it:
\* <<digits, k>> for 0.digits * 10^k.  The floats below a power of two lie
\* half as far apart as those above it.
Shortest(man, exp) ==
    LET narrow == IF man = TwoTo52 /\ exp > MinExp THEN 1 ELSE 0
        r == TimesTwo(man, (IF exp > 0 THEN exp ELSE 0) + 1 + narrow)
        s == TimesTwo(<<1>>, (IF exp < 0 THEN -exp ELSE 0) + 1 + narrow)
        mp == TimesTwo(<<1>>, (IF exp > 0 THEN exp ELSE 0) + narrow)
        mm == TimesTwo(<<1>>, IF exp > 0 THEN exp ELSE 0)
    IN  Estimated(r, s, mp, mm, DecimalLen(Add(r, mp)) - DecimalLen(s), man[1] % 2 = 0)

\* the decimal exponents between which repr writes no exponent
repr_min_point == -4

repr_max_point == 16

\* repr of the positive number 0.digits * 10^k
float_format(digits, k) ==
    IF k <= repr_min_point \/ k > repr_max_point
    THEN <<digits[1]>> \o (IF Len(digits) > 1 THEN S(".") \o Tail(digits) ELSE <<>>)
            \o (IF k - 1 < 0 THEN S("e-") ELSE S("e+"))
            \o (IF k - 1 \in -9..9 THEN S("0") ELSE <<>>)
            \o Str(IF k - 1 < 0 THEN 1 - k ELSE k - 1)
    ELSE IF k <= 0 THEN S("0.") \o [i \in 1..(-k) |-> "0"] \o digits
    ELSE IF k >= Len(digits) THEN digits \o [i \in 1..(k - Len(digits)) |-> "0"] \o S(".0")
    ELSE SubSeq(digits, 1, k) \o S(".") \o SubSeq(digits, k + 1, Len(digits))

\* repr(x), for a float x
float_repr(x) ==
    IF x.kind = "nan" THEN S("nan")
    ELSE (IF x.sign = 1 THEN S("-") ELSE <<>>)
            \o (IF x.kind = "inf" THEN S("inf")
                ELSE IF x.man = <<>> THEN S("0.0")
                ELSE float_format(Shortest(x.man, x.exp)[1], Shortest(x.man, x.exp)[2]))

----------------------------------------------------------------------------
(* json.loads, for documents without \u escapes *)

JsonWhitespace == {SP, TAB, NL, CR}

\* the characters below U+0020, which a JSON string cannot hold
ControlChars == {chr(n) : n \in 0..31}

\* sys.getrecursionlimit(): how many calls can be in progress at once, the
\* frames of Python functions and the calls that C code counts
recursion_limit == 1000

\* sys.get_int_max_str_digits()
int_max_str_digits == 4300

\* the scanner read the value v and stopped at offset end
Ok(v, end) == [ok |-> TRUE, v |-> v, end |-> end]

\* a JSONDecodeError with msg at offset pos; in the scanner "Expecting value"
\* is the StopIteration that raw_decode turns into one
Err(msg, pos) == [ok |-> FALSE, cls |-> "JSONDecodeError", msg |-> msg, pos |-> pos]

\* an exception of another class
Fail(cls) == [ok |-> FALSE, cls |-> cls, msg |-> "", pos |-> 0]

\* the calls in progress while a JSONDecodeError is made: of the class, of its
\* __init__ and of the methods of str that __init__ calls
error_calls == 3

\* raise JSONDecodeError(msg, s, pos) with depth calls in progress
raise_errmsg(msg, pos, depth) ==
    IF depth + error_calls > recursion_limit THEN Fail("RecursionError") ELSE Err(msg, pos)

\* what the scanner makes of r, the end of a string: its errors are raised
\* with depth calls in progress
raised(r, depth) == IF r.ok THEN r ELSE raise_errmsg(r.msg, r.pos, depth)

\* what follows a backslash in a JSON string, and the character it stands for
json_escapes ==
    [c \in {DQ, "\\", "/", "b", "f", "n", "r", "t"} |->
        CASE c = "b" -> "U+0008"
          [] c = "f" -> "U+000C"
          [] c = "n" -> NL
          [] c = "r" -> CR
          [] c = "t" -> TAB
          [] OTHER -> c]

\* the hexadecimal digits of a \uXXXX escape
JsonHexChars == Range(HexDigits) \cup Range(S("abcdef"))

\* a \uXXXX escape with its four hexadecimal digits starts at offset k of s
\* and s goes on after it
unicode_escape(s, k) ==
    /\ k + 6 < Len(s)
    /\ At(s, k) = "\\"
    /\ At(s, k + 1) = "u"
    /\ \A j \in 2..5 : At(s, k + j) \in JsonHexChars

\* the code that the escape at offset k writes
escape_code(s, k) == HexValue(Slice(s, k + 2, k + 6))

RECURSIVE scanstring(_, _, _, _)
\* the JSON string whose opening quote is at offset begin, read from offset k
\* on, acc being the characters read so far
scanstring(s, k, acc, begin) ==
    IF k >= Len(s) THEN Err("Unterminated string starting at", begin)
    ELSE LET c == At(s, k)
         IN  IF c = DQ THEN Ok(acc, k + 1)
             ELSE IF c = "\\" THEN
                 IF k + 1 >= Len(s) THEN Err("Unterminated string starting at", begin)
                 ELSE IF At(s, k + 1) \in DOMAIN json_escapes
                      THEN scanstring(s, k + 2, Append(acc, json_escapes[At(s, k + 1)]), begin)
                 ELSE IF At(s, k + 1) = "u" THEN
                      IF ~unicode_escape(s, k) THEN Err("Invalid \\uXXXX escape", k + 1)
                      ELSE IF /\ escape_code(s, k) \in 55296..56319
                              /\ unicode_escape(s, k + 6)
                              /\ escape_code(s, k + 6) \in 56320..57343
                      THEN scanstring(s, k + 12,
                                      Append(acc, chr(65536 + (escape_code(s, k) - 55296) * 1024
                                                      + (escape_code(s, k + 6) - 56320))),
                                      begin)
                      ELSE scanstring(s, k + 6, Append(acc, chr(escape_code(s, k))), begin)
                 ELSE Err("Invalid \\escape", k)
             ELSE IF c \in ControlChars THEN Err("Invalid control character at", k)
             ELSE scanstring(s, k + 1, Append(acc, c), begin)

\* int(numeral), for a numeral of JSON without fraction and exponent: a run of
\* more than int_max_str_digits digits is refused
int_of(numeral) ==
    LET digits == IF numeral[1] = "-" THEN Tail(numeral) ELSE numeral
        value[k \in 0..Len(digits)] ==
            IF k = 0 THEN 0 ELSE 10 * value[k - 1] + DigitValue(digits[k])
    IN  IF Len(digits) > int_max_str_digits THEN Raise("ValueError")
        ELSE PyInt((IF numeral[1] = "-" THEN -1 ELSE 1) * value[Len(digits)])

\* NUMBER_RE r'(-?(?:0|[1-9]\d*))(\.\d+)?([eE][-+]?\d+)?' at offset i
match_number(s, i) ==
    LET d == IF i < Len(s) /\ At(s, i) = "-" THEN i + 1 ELSE i
    IN  IF d >= Len(s) \/ At(s, d) \notin DecimalDigits THEN Err("Expecting value", i)
        ELSE LET int_end == IF At(s, d) = "0" THEN d + 1 ELSE RunEnd(s, d, DecimalDigits)
                 frac_end ==
                     IF /\ int_end + 1 < Len(s)
                        /\ At(s, int_end) = "."
                        /\ At(s, int_end + 1) \in DecimalDigits
                     THEN RunEnd(s, int_end + 1, DecimalDigits) ELSE int_end
                 sign_end ==
                     IF frac_end + 1 < Len(s) /\ At(s, frac_end + 1) \in {"-", "+"}
                     THEN frac_end + 2 ELSE frac_end + 1
                 exp_end ==
                     IF /\ frac_end < Len(s)
                        /\ At(s, frac_end) \in {"e", "E"}
                        /\ sign_end < Len(s)
                        /\ At(s, sign_end) \in DecimalDigits
                     THEN RunEnd(s, sign_end, DecimalDigits) ELSE frac_end
             IN  IF exp_end # int_end
                 THEN Ok(PyFloat(float_of(Slice(s, i, exp_end))), exp_end)
                 ELSE IF IsRaise(int_of(Slice(s, i, int_end)))
                 THEN Fail(int_of(Slice(s, i, int_end)).v)
                 ELSE Ok(int_of(Slice(s, i, int_end)), int_end)

RECURSIVE scan_once(_, _, _), JSONObject(_, _, _, _), JSONArray(_, _, _, _)
\* the value that starts at offset i, read with depth calls in progress, that
\* of the scanner among them; an object and an array are read by one more call
\* and a constant is looked up by one
scan_once(s, i, depth) ==
    IF i >= Len(s) THEN Err("Expecting value", i)
    ELSE LET c == At(s, i)
         IN  CASE c = DQ ->
                    LET r == scanstring(s, i + 1, <<>>, i)
                    IN  IF r.ok THEN Ok(PyStr(r.v), r.end) ELSE raised(r, depth)
               [] c = "{" ->
                    LET j == RunEnd(s, i + 1, JsonWhitespace)
                    IN  IF depth + 1 > recursion_limit THEN Fail("RecursionError")
                        ELSE IF j < Len(s) /\ At(s, j) = "}" THEN Ok(PyDict(<<>>), j + 1)
                        ELSE JSONObject(s, j, PyDict(<<>>), depth + 1)
               [] c = "[" ->
                    LET j == RunEnd(s, i + 1, JsonWhitespace)
                    IN  IF depth + 1 > recursion_limit THEN Fail("RecursionError")
                        ELSE IF j < Len(s) /\ At(s, j) = "]" THEN Ok(PyList(<<>>), j + 1)
                        ELSE JSONArray(s, j, <<>>, depth + 1)
               [] StartsAt(s, i, S("null")) -> Ok(PyNone, i + 4)
               [] StartsAt(s, i, S("true")) -> Ok(PyBool(TRUE), i + 4)
               [] StartsAt(s, i, S("false")) -> Ok(PyBool(FALSE), i + 5)
               [] StartsAt(s, i, S("NaN")) ->
                    IF depth + 1 > recursion_limit THEN Fail("RecursionError")
                    ELSE Ok(PyFloat(NaN), i + 3)
               [] StartsAt(s, i, S("Infinity")) ->
                    IF depth + 1 > recursion_limit THEN Fail("RecursionError")
                    ELSE Ok(PyFloat(Infinity(0)), i + 8)
               [] StartsAt(s, i, S("-Infinity")) ->
                    IF depth + 1 > recursion_limit THEN Fail("RecursionError")
                    ELSE Ok(PyFloat(Infinity(1)), i + 9)
               [] OTHER -> match_number(s, i)

\* the members of an object from offset j on, where a key is due; pairs holds
\* the members read so far
JSONObject(s, j, pairs, depth) ==
    IF j >= Len(s) \/ At(s, j) # DQ
    THEN raise_errmsg("Expecting property name enclosed in double quotes", j, depth)
    ELSE LET key == scanstring(s, j + 1, <<>>, j)
         IN  IF ~key.ok THEN raised(key, depth)
             ELSE LET k == RunEnd(s, key.end, JsonWhitespace)
                  IN  IF k >= Len(s) \/ At(s, k) # ":"
                      THEN raise_errmsg("Expecting ':' delimiter", k, depth)
                      ELSE LET value == scan_once(s, RunEnd(s, k + 1, JsonWhitespace), depth)
                           IN  IF ~value.ok THEN value
                               ELSE LET m == RunEnd(s, value.end, JsonWhitespace)
                                        now == setitem(pairs, key.v, value.v)
                                    IN  IF m < Len(s) /\ At(s, m) = "}" THEN Ok(now, m + 1)
                                        ELSE IF m >= Len(s) \/ At(s, m) # ","
                                        THEN raise_errmsg("Expecting ',' delimiter", m, depth)
                                        ELSE JSONObject(s, RunEnd(s, m + 1, JsonWhitespace),
                                                        now, depth)

\* the elements of an array from offset j on, where a value is due
JSONArray(s, j, values, depth) ==
    LET value == scan_once(s, j, depth)
    IN  IF ~value.ok THEN value
        ELSE LET m == RunEnd(s, value.end, JsonWhitespace)
                 now == Append(values, value.v)
             IN  IF m < Len(s) /\ At(s, m) = "]" THEN Ok(PyList(now), m + 1)
                 ELSE IF m >= Len(s) \/ At(s, m) # ","
                 THEN raise_errmsg("Expecting ',' delimiter", m, depth)
                 ELSE JSONArray(s, RunEnd(s, m + 1, JsonWhitespace), now, depth)

\* str(e) for the JSONDecodeError raised with msg at offset pos of doc
JSONDecodeError(msg, doc, pos) ==
    LET newlines == {k \in 0..(pos - 1) : At(doc, k) = NL}
        colno == IF newlines = {} THEN pos + 1 ELSE pos - Max(newlines)
    IN  S(msg) \o S(": line ") \o Str(Cardinality(newlines) + 1)
            \o S(" column ") \o Str(colno) \o S(" (char ") \o Str(pos) \o S(")")

\* the calls in progress in json.loads: its own, then that of decode, then that
\* of raw_decode, then that of the scanner
loads_calls == 4

\* json.loads(s), called with depth frames on the stack: Ok with the value, Err
\* with the JSONDecodeError's message, or Fail with another exception
json_loads(s, depth) ==
    IF StartsAt(s, 0, <<BOM>>)
    THEN raise_errmsg("Unexpected UTF-8 BOM (decode using utf-8-sig)", 0, depth + 1)
    ELSE IF depth + loads_calls > recursion_limit THEN Fail("RecursionError")
    ELSE LET value == scan_once(s, RunEnd(s, 0, JsonWhitespace), depth + loads_calls)
         IN  IF ~value.ok
             THEN (IF value.cls = "JSONDecodeError" /\ value.msg = "Expecting value"
                   THEN raise_errmsg(value.msg, value.pos, depth + 3)
                   ELSE value)
             ELSE LET end == RunEnd(s, value.end, JsonWhitespace)
                  IN  IF end # Len(s) THEN raise_errmsg("Extra data", end, depth + 2)
                      ELSE value

----------------------------------------------------------------------------
(* LLMAnalyzer._parse_json (src/src/doc_analyzer/analyzers/llm_analyzer.py) *)

RECURSIVE lstrip(_)
\* s.lstrip()
lstrip(s) == IF s # <<>> /\ IsSpace(s[1]) THEN lstrip(Tail(s)) ELSE s

\* s.strip()
strip(s) == lstrip(rstrip(s))

\* the offset of the first occurrence of sub in s, which contains it
find(s, sub) ==
    CHOOSE i \in 0..Len(s) : StartsAt(s, i, sub) /\ \A j \in 0..(i - 1) : ~StartsAt(s, j, sub)

\* s.split(sep)[0]
split_first(s, sep) == IF Contains(s, sep) THEN Slice(s, 0, find(s, sep)) ELSE s

\* s.split(sep)[1], for s that contains sep
split_second(s, sep) ==
    split_first(Slice(s, find(s, sep) + Len(sep), Len(s)), sep)

code_fence == <<BQ, BQ, BQ>>

\* _parse_json(response), called with depth frames on the stack: the reply of
\* the provider is a str, or None; only a JSONDecodeError is caught
_parse_json(response, depth) ==
    IF depth + 1 > recursion_limit THEN Raise("RecursionError")
    ELSE IF response = PyNone THEN Raise("TypeError")
    ELSE LET inner ==
                 IF Contains(response.v, code_fence \o S("json"))
                 THEN split_first(split_second(response.v, code_fence \o S("json")),
                                  code_fence)
                 ELSE IF Contains(response.v, code_fence)
                 THEN split_first(split_second(response.v, code_fence), code_fence)
                 ELSE response.v
             doc == strip(inner)
             parsed == json_loads(doc, depth + 1)
         IN  IF parsed.ok THEN parsed.v
             ELSE IF parsed.cls # "JSONDecodeError" THEN Raise(parsed.cls)
             ELSE PyDict(<<
                     <<S("error"), PyStr(S("Failed to parse response: ")
                                         \o JSONDecodeError(parsed.msg, doc, parsed.pos))>>,
                     <<S("raw"), PyStr(inner)>> >>)

----------------------------------------------------------------------------
(* str() and repr() of a Python value, as an f-string writes it *)

\* the code points c with chr(c).isprintable()
PrintableRanges ==
    Ranges(<<32, 126,  161, 172,  174, 887,  890, 895,  900, 906,  908, 908,
             910, 929,  931, 1327,  1329, 1366,  1369, 1418,  1421, 1423,  1425, 1479,
             1488, 1514,  1519, 1524,  1542, 1563,  1565, 1756,  1758, 1805,  1808, 1866,
             1869, 1969,  1984, 2042,  2045, 2093,  2096, 2110,  2112, 2139,  2142, 2142,
             2144, 2154,  2160, 2190,  2200, 2273,  2275, 2435,  2437, 2444,  2447, 2448,
             2451, 2472,  2474, 2480,  2482, 2482,  2486, 2489,  2492, 2500,  2503, 2504,
             2507, 2510,  2519, 2519,  2524, 2525,  2527, 2531,  2534, 2558,  2561, 2563,
             2565, 2570,  2575, 2576,  2579, 2600,  2602, 2608,  2610, 2611,  2613, 2614,
             2616, 2617,  2620, 2620,  2622, 2626,  2631, 2632,  2635, 2637,  2641, 2641,
             2649, 2652,  2654, 2654,  2662, 2678,  2689, 2691,  2693, 2701,  2703, 2705,
             2707, 2728,  2730, 2736,  2738, 2739,  2741, 2745,  2748, 2757,  2759, 2761,
             2763, 2765,  2768, 2768,  2784, 2787,  2790, 2801,  2809, 2815,  2817, 2819,
             2821, 2828,  2831, 2832,  2835, 2856,  2858, 2864,  2866, 2867,  2869, 2873,
             2876, 2884,  2887, 2888,  2891, 2893,  2901, 2903,  2908, 2909,  2911, 2915,
             2918, 2935,  2946, 2947,  2949, 2954,  2958, 2960,  2962, 2965,  2969, 2970,
             2972, 2972,  2974, 2975,  2979, 2980,  2984, 2986,  2990, 3001,  3006, 3010,
             3014, 3016,  3018, 3021,  3024, 3024,  3031, 3031,  3046, 3066,  3072, 3084,
             3086, 3088,  3090, 3112,  3114, 3129,  3132, 3140,  3142, 3144,  3146, 3149,
             3157, 3158,  3160, 3162,  3165, 3165,  3168, 3171,  3174, 3183,  3191, 3212,
             3214, 3216,  3218, 3240,  3242, 3251,  3253, 3257,  3260, 3268,  3270, 3272,
             3274, 3277,  3285, 3286,  3293, 3294,  3296, 3299,  3302, 3311,  3313, 3314,
             3328, 3340,  3342, 3344,  3346, 3396,  3398, 3400,  3402, 3407,  3412, 3427,
             3430, 3455,  3457, 3459,  3461, 3478,  3482, 3505,  3507, 3515,  3517, 3517,
             3520, 3526,  3530, 3530,  3535, 3540,  3542, 3542,  3544, 3551,  3558, 3567,
             3570, 3572,  3585, 3642,  3647, 3675,  3713, 3714,  3716, 3716,  3718, 3722,
             3724, 3747,  3749, 3749,  3751, 3773,  3776, 3780,  3782, 3782,  3784, 3789,
             3792, 3801,  3804, 3807,  3840, 3911,  3913, 3948,  3953, 3991,  3993, 4028,
             4030, 4044,  4046, 4058,  4096, 4293,  4295, 4295,  4301, 4301,  4304, 4680,
             4682, 4685,  4688, 4694,  4696, 4696,  4698, 4701,  4704, 4744,  4746, 4749,
             4752, 4784,  4786, 4789,  4792, 4798,  4800, 4800,  4802, 4805,  4808, 4822,
             4824, 4880,  4882, 4885,  4888, 4954,  4957, 4988,  4992, 5017,  5024, 5109,
             5112, 5117,  5120, 5759,  5761, 5788,  5792, 5880,  5888, 5909,  5919, 5942,
             5952, 5971,  5984, 5996,  5998, 6000,  6002, 6003,  6016, 6109,  6112, 6121,
             6128, 6137,  6144, 6157,  6159, 6169,  6176, 6264,  6272, 6314,  6320, 6389,
             6400, 6430,  6432, 6443,  6448, 6459,  6464, 6464,  6468, 6509,  6512, 6516,
             6528, 6571,  6576, 6601,  6608, 6618,  6622, 6683,  6686, 6750,  6752, 6780,
             6783, 6793,  6800, 6809,  6816, 6829,  6832, 6862,  6912, 6988,  6992, 7038,
             7040, 7155,  7164, 7223,  7227, 7241,  7245, 7304,  7312, 7354,  7357, 7367,
             7376, 7418,  7424, 7957,  7960, 7965,  7968, 8005,  8008, 8013,  8016, 8023,
             8025, 8025,  8027, 8027,  8029, 8029,  8031, 8061,  8064, 8116,  8118, 8132,
             8134, 8147,  8150, 8155,  8157, 8175,  8178, 8180,  8182, 8190,  8208, 8231,
             8240, 8286,  8304, 8305,  8308, 8334,  8336, 8348,  8352, 8384,  8400, 8432,
             8448, 8587,  8592, 9254,  9280, 9290,  9312, 11123,  11126, 11157,  11159, 11507,
             11513, 11557,  11559, 11559,  11565, 11565,  11568, 11623,  11631, 11632,  11647, 11670,
             11680, 11686,  11688, 11694,  11696, 11702,  11704, 11710,  11712, 11718,  11720, 11726,
             11728, 11734,  11736, 11742,  11744, 11869,  11904, 11929,  11931, 12019,  12032, 12245,
             12272, 12283,  12289, 12351,  12353, 12438,  12441, 12543,  12549, 12591,  12593, 12686,
             12688, 12771,  12784, 12830,  12832, 42124,  42128, 42182,  42192, 42539,  42560, 42743,
             42752, 42954,  42960, 42961,  42963, 42963,  42965, 42969,  42994, 43052,  43056, 43065,
             43072, 43127,  43136, 43205,  43214, 43225,  43232, 43347,  43359, 43388,  43392, 43469,
             43471, 43481,  43486, 43518,  43520, 43574,  43584, 43597,  43600, 43609,  43612, 43714,
             43739, 43766,  43777, 43782,  43785, 43790,  43793, 43798,  43808, 43814,  43816, 43822,
             43824, 43883,  43888, 44013,  44016, 44025,  44032, 55203,  55216, 55238,  55243, 55291,
             63744, 64109,  64112, 64217,  64256, 64262,  64275, 64279,  64285, 64310,  64312, 64316,
             64318, 64318,  64320, 64321,  64323, 64324,  64326, 64450,  64467, 64911,  64914, 64967,
             64975, 64975,  65008, 65049,  65056, 65106,  65108, 65126,  65128, 65131,  65136, 65140,
             65142, 65276,  65281, 65470,  65474, 65479,  65482, 65487,  65490, 65495,  65498, 65500,
             65504, 65510,  65512, 65518,  65532, 65533,  65536, 65547,  65549, 65574,  65576, 65594,
             65596, 65597,  65599, 65613,  65616, 65629,  65664, 65786,  65792, 65794,  65799, 65843,
             65847, 65934,  65936, 65948,  65952, 65952,  66000, 66045,  66176, 66204,  66208, 66256,
             66272, 66299,  66304, 66339,  66349, 66378,  66384, 66426,  66432, 66461,  66463, 66499,
             66504, 66517,  66560, 66717,  66720, 66729,  66736, 66771,  66776, 66811,  66816, 66855,
             66864, 66915,  66927, 66938,  66940, 66954,  66956, 66962,  66964, 66965,  66967, 66977,
             66979, 66993,  66995, 67001,  67003, 67004,  67072, 67382,  67392, 67413,  67424, 67431,
             67456, 67461,  67463, 67504,  67506, 67514,  67584, 67589,  67592, 67592,  67594, 67637,
             67639, 67640,  67644, 67644,  67647, 67669,  67671, 67742,  67751, 67759,  67808, 67826,
             67828, 67829,  67835, 67867,  67871, 67897,  67903, 67903,  67968, 68023,  68028, 68047,
             68050, 68099,  68101, 68102,  68108, 68115,  68117, 68119,  68121, 68149,  68152, 68154,
             68159, 68168,  68176, 68184,  68192, 68255,  68288, 68326,  68331, 68342,  68352, 68405,
             68409, 68437,  68440, 68466,  68472, 68497,  68505, 68508,  68521, 68527,  68608, 68680,
             68736, 68786,  68800, 68850,  68858, 68903,  68912, 68921,  69216, 69246,  69248, 69289,
             69291, 69293,  69296, 69297,  69376, 69415,  69424, 69465,  69488, 69513,  69552, 69579,
             69600, 69622,  69632, 69709,  69714, 69749,  69759, 69820,  69822, 69826,  69840, 69864,
             69872, 69881,  69888, 69940,  69942, 69959,  69968, 70006,  70016, 70111,  70113, 70132,
             70144, 70161,  70163, 70206,  70272, 70278,  70280, 70280,  70282, 70285,  70287, 70301,
             70303, 70313,  70320, 70378,  70384, 70393,  70400, 70403,  70405, 70412,  70415, 70416,
             70419, 70440,  70442, 70448,  70450, 70451,  70453, 70457,  70459, 70468,  70471, 70472,
             70475, 70477,  70480, 70480,  70487, 70487,  70493, 70499,  70502, 70508,  70512, 70516,
             70656, 70747,  70749, 70753,  70784, 70855,  70864, 70873,  71040, 71093,  71096, 71133,
             71168, 71236,  71248, 71257,  71264, 71276,  71296, 71353,  71360, 71369,  71424, 71450,
             71453, 71467,  71472, 71494,  71680, 71739,  71840, 71922,  71935, 71942,  71945, 71945,
             71948, 71955,  71957, 71958,  71960, 71989,  71991, 71992,  71995, 72006,  72016, 72025,
             72096, 72103,  72106, 72151,  72154, 72164,  72192, 72263,  72272, 72354,  72368, 72440,
             72704, 72712,  72714, 72758,  72760, 72773,  72784, 72812,  72816, 72847,  72850, 72871,
             72873, 72886,  72960, 72966,  72968, 72969,  72971, 73014,  73018, 73018,  73020, 73021,
             73023, 73031,  73040, 73049,  73056, 73061,  73063, 73064,  73066, 73102,  73104, 73105,
             73107, 73112,  73120, 73129,  73440, 73464,  73648, 73648,  73664, 73713,  73727, 74649,
             74752, 74862,  74864, 74868,  74880, 75075,  77712, 77810,  77824, 78894,  82944, 83526,
             92160, 92728,  92736, 92766,  92768, 92777,  92782, 92862,  92864, 92873,  92880, 92909,
             92912, 92917,  92928, 92997,  93008, 93017,  93019, 93025,  93027, 93047,  93053, 93071,
             93760, 93850,  93952, 94026,  94031, 94087,  94095, 94111,  94176, 94180,  94192, 94193,
             94208, 100343,  100352, 101589,  101632, 101640,  110576, 110579,  110581, 110587,  110589, 110590,
             110592, 110882,  110928, 110930,  110948, 110951,  110960, 111355,  113664, 113770,  113776, 113788,
             113792, 113800,  113808, 113817,  113820, 113823,  118528, 118573,  118576, 118598,  118608, 118723,
             118784, 119029,  119040, 119078,  119081, 119154,  119163, 119274,  119296, 119365,  119520, 119539,
             119552, 119638,  119648, 119672,  119808, 119892,  119894, 119964,  119966, 119967,  119970, 119970,
             119973, 119974,  119977, 119980,  119982, 119993,  119995, 119995,  119997, 120003,  120005, 120069,
             120071, 120074,  120077, 120084,  120086, 120092,  120094, 120121,  120123, 120126,  120128, 120132,
             120134, 120134,  120138, 120144,  120146, 120485,  120488, 120779,  120782, 121483,  121499, 121503,
             121505, 121519,  122624, 122654,  122880, 122886,  122888, 122904,  122907, 122913,  122915, 122916,
             122918, 122922,  123136, 123180,  123184, 123197,  123200, 123209,  123214, 123215,  123536, 123566,
             123584, 123641,  123647, 123647,  124896, 124902,  124904, 124907,  124909, 124910,  124912, 124926,
             124928, 125124,  125127, 125142,  125184, 125259,  125264, 125273,  125278, 125279,  126065, 126132,
             126209, 126269,  126464, 126467,  126469, 126495,  126497, 126498,  126500, 126500,  126503, 126503,
             126505, 126514,  126516, 126519,  126521, 126521,  126523, 126523,  126530, 126530,  126535, 126535,
             126537, 126537,  126539, 126539,  126541, 126543,  126545, 126546,  126548, 126548,  126551, 126551,
             126553, 126553,  126555, 126555,  126557, 126557,  126559, 126559,  126561, 126562,  126564, 126564,
             126567, 126570,  126572, 126578,  126580, 126583,  126585, 126588,  126590, 126590,  126592, 126601,
             126603, 126619,  126625, 126627,  126629, 126633,  126635, 126651,  126704, 126705,  126976, 127019,
             127024, 127123,  127136, 127150,  127153, 127167,  127169, 127183,  127185, 127221,  127232, 127405,
             127462, 127490,  127504, 127547,  127552, 127560,  127568, 127569,  127584, 127589,  127744, 128727,
             128733, 128748,  128752, 128764,  128768, 128883,  128896, 128984,  128992, 129003,  129008, 129008,
             129024, 129035,  129040, 129095,  129104, 129113,  129120, 129159,  129168, 129197,  129200, 129201,
             129280, 129619,  129632, 129645,  129648, 129652,  129656, 129660,  129664, 129670,  129680, 129708,
             129712, 129722,  129728, 129733,  129744, 129753,  129760, 129767,  129776, 129782,  129792, 129938,
             129940, 129994,  130032, 130041,  131072, 173791,  173824, 177976,  177984, 178205,  178208, 183969,
             183984, 191456,  194560, 195101,  196608, 201546,  917760, 917999>>)

PrintableChars == Chars(PrintableRanges)

\* n in at least width lower-case hexadecimal digits
hex_lower(n, width) ==
    LET digits[k \in 0..width] ==
            IF k = 0 THEN <<>>
            ELSE digits[k - 1] \o <<S("0123456789abcdef")[((n \div (16 ^ (width - k))) % 16) + 1]>>
    IN  digits[width]

\* how repr writes a character that is not printable
repr_escape(c) ==
    IF ord(c) < 256 THEN S("\\x") \o hex_lower(ord(c), 2)
    ELSE IF ord(c) < 65536 THEN S("\\u") \o hex_lower(ord(c), 4)
    ELSE S("\\U") \o hex_lower(ord(c), 8)

\* repr of a str: between single quotes, or between double quotes when it
\* holds a single quote and no double quote
repr_str(s) ==
    LET quote == IF (\E i \in DOMAIN s : s[i] = SQ) /\ ~(\E i \in DOMAIN s : s[i] = DQ)
                 THEN DQ ELSE SQ
        escaped[k \in 0..Len(s)] ==
            IF k = 0 THEN <<>>
            ELSE escaped[k - 1] \o
                 (CASE s[k] = quote -> <<"\\", quote>>
                    [] s[k] = "\\" -> <<"\\", "\\">>
                    [] s[k] = NL -> <<"\\", "n">>
                    [] s[k] = TAB -> <<"\\", "t">>
                    [] s[k] = CR -> <<"\\", "r">>
                    [] s[k] \notin PrintableChars /\ s[k] \notin {NL, TAB, CR} -> repr_escape(s[k])
                    [] OTHER -> <<s[k]>>)
    IN  <<quote>> \o escaped[Len(s)] \o <<quote>>

RECURSIVE py_repr(_)
\* repr(x)
py_repr(x) ==
    CASE x.type = "NoneType" -> S("None")
      [] x.type = "bool" -> IF x.v THEN S("True") ELSE S("False")
      [] x.type = "int" -> IF x.v < 0 THEN S("-") \o Str(-x.v) ELSE Str(x.v)
      [] x.type = "float" -> float_repr(x.v)
      [] x.type = "str" -> repr_str(x.v)
      [] x.type = "list" ->
            S("[") \o Join([i \in DOMAIN x.v |-> py_repr(x.v[i])], S(", ")) \o S("]")
      [] x.type = "dict" ->
            S("{") \o Join([i \in DOMAIN x.v |->
                               repr_str(x.v[i][1]) \o S(": ") \o py_repr(x.v[i][2])],
                           S(", ")) \o S("}")

\* str(x), what {x} in an f-string writes
py_str(x) == IF x.type = "str" THEN x.v ELSE py_repr(x)

----------------------------------------------------------------------------
(* models.py *)

\* A model object validates the Python value x given for a field and gives the
\* value it stores, or Raise("ValidationError").

\* a str field: only a str is accepted
str_field(x) == IF x.type = "str" THEN x ELSE Raise("ValidationError")

\* an Optional[str] field: a str or None
field(x) == IF x.type \in {"str", "NoneType"} THEN x ELSE Raise("ValidationError")

\* the strs a bool field takes for False and for True, in any case of their
\* ASCII letters; "0" and "1" are lowered to themselves
false_strs == {S("0"), S("off"), S("f"), S("false"), S("n"), S("no")}

true_strs == {S("1"), S("on"), S("t"), S("true"), S("y"), S("yes")}

\* s with its ASCII capitals lowered
ascii_lower(s) ==
    [i \in DOMAIN s |->
        IF s[i] \in Range(UpperLetters)
        THEN LowerLetters[CHOOSE k \in 1..26 : UpperLetters[k] = s[i]] ELSE s[i]]

\* the float 1.0
One == Float("finite", 0, TwoTo52, 1 - mant_dig)

\* a bool field: a bool, the ints 0 and 1, the floats 0.0, -0.0 and 1.0 and the
\* strs above
bool_field(x) ==
    CASE x.type = "bool" -> x
      [] x.type = "int" /\ x.v \in {0, 1} -> PyBool(x.v = 1)
      [] x.type = "float" /\ x.v.kind = "finite" /\ x.v.man = <<>> -> PyBool(FALSE)
      [] x.type = "float" /\ x.v = One -> PyBool(TRUE)
      [] x.type = "str" /\ ascii_lower(x.v) \in false_strs -> PyBool(FALSE)
      [] x.type = "str" /\ ascii_lower(x.v) \in true_strs -> PyBool(TRUE)
      [] OTHER -> Raise("ValidationError")

\* what the object holds for a validated value: the characters of a str, None
\* for None, the truth value of a bool
stored(x) == IF x.type = "NoneType" THEN None ELSE x.v

\* Issue(...): category and severity are members of their enums; the other
\* arguments are Python values
Issue(category, severity, title, description, location, context, suggestion, affects_score) ==
    IF \/ IsRaise(str_field(title))
       \/ IsRaise(str_field(description))
       \/ IsRaise(field(location))
       \/ IsRaise(field(context))
       \/ IsRaise(field(suggestion))
       \/ IsRaise(bool_field(affects_score))
    THEN Raise("ValidationError")
    ELSE [type |-> "Issue", category |-> category, severity |-> severity,
          title |-> title.v, description |-> description.v,
          location |-> stored(location), context |-> stored(context),
          suggestion |-> stored(suggestion),
          affects_score |-> bool_field(affects_score).v]

score_max == 100

\* ScoreBreakdown(...): each component is validated against ge=0, le=100
ScoreBreakdown(spelling_grammar, required_content, math_accuracy) ==
    IF \E c \in {spelling_grammar, required_content, math_accuracy} :
            c < 0 \/ c > score_max
    THEN Raise("ValidationError")
    ELSE [type |-> "ScoreBreakdown", spelling_grammar |-> spelling_grammar,
          required_content |-> required_content, math_accuracy |-> math_accuracy]

\* BANNTScore(...): the arguments are Python values
BANNTScore(budget, budget_notes, authority, authority_notes, need, need_notes, next_steps, next_steps_notes, timeline, timeline_notes) ==
    IF \/ IsRaise(bool_field(budget)) \/ IsRaise(str_field(budget_notes))
       \/ IsRaise(bool_field(authority)) \/ IsRaise(str_field(authority_notes))
       \/ IsRaise(bool_field(need)) \/ IsRaise(str_field(need_notes))
       \/ IsRaise(bool_field(next_steps)) \/ IsRaise(str_field(next_steps_notes))
       \/ IsRaise(bool_field(timeline)) \/ IsRaise(str_field(timeline_notes))
    THEN Raise("ValidationError")
    ELSE [type |-> "BANNTScore",
          budget |-> bool_field(budget).v, budget_notes |-> budget_notes.v,
          authority |-> bool_field(authority).v, authority_notes |-> authority_notes.v,
          need |-> bool_field(need).v, need_notes |-> need_notes.v,
          next_steps |-> bool_field(next_steps).v,
          next_steps_notes |-> next_steps_notes.v,
          timeline |-> bool_field(timeline).v, timeline_notes |-> timeline_notes.v]

\* BANNTScore.score
bannt_score_of(b) ==
    Cardinality({e \in {"budget", "authority", "need", "next_steps", "timeline"} : b[e]})

----------------------------------------------------------------------------
(* QualityAnalyzer (src/src/doc_analyzer/analyzers/quality_analyzer.py).      *)
(* A method returns a value that carries its type, or Raise(cls).              *)

\* {...}.get(key, default) for a dict literal, given as a function on the
\* characters of its keys: a key that is a list or a dict cannot be hashed
lookup(table, key, default) ==
    IF key.type \in {"list", "dict"} THEN Raise("TypeError")
    ELSE IF key.type = "str" /\ key.v \in DOMAIN table THEN PyStr(table[key.v])
    ELSE PyStr(default)

\* a dict literal whose keys name their own values
enum_table(names) == [k \in {S(n) : n \in names} |-> CHOOSE n \in names : S(n) = k]

\* category.value.title()
title_case(category) ==
    CASE category = "spelling" -> S("Spelling")
      [] category = "grammar" -> S("Grammar")
      [] category = "spacing" -> S("Spacing")

\* x[:30], for the str and list values that can be sliced
first_30(x) ==
    CASE x.type = "str" -> PyStr(Slice(x.v, 0, 30))
      [] x.type = "list" -> PyList(Slice(x.v, 0, 30))
      [] OTHER -> Raise("TypeError")

\* the body of the loop of _convert_sg_issues, for one item
sg_issue(item) ==
    IF item.type # "dict" THEN Raise("AttributeError")
    ELSE LET category == lookup(enum_table({"spelling", "grammar", "spacing"}),
                                get(item, "category", PyStr(<<>>)), "spelling")
             severity == lookup(enum_table({"high", "medium", "low"}),
                                get(item, "severity", PyStr(S("medium"))), "medium")
             txt == get(item, "text", PyStr(<<>>))
         IN  IF IsRaise(category) THEN category
             ELSE IF IsRaise(severity) THEN severity
             ELSE IF IsRaise(first_30(txt)) THEN first_30(txt)
             ELSE Issue(category.v, severity.v,
                        PyStr(title_case(category.v) \o S(" error: ")
                                  \o py_str(first_30(txt))),
                        PyStr(S("Found: '") \o py_str(txt) \o S("'")),
                        get(item, "location", PyNone),
                        PyNone,
                        get(item, "suggestion", PyNone),
                        PyBool(TRUE))

\* [one(x) for x in iterable], stopping at the first exception; results holds
\* one(x) for each of the values the loop would visit
collect(iterable, results) ==
    IF IsRaise(iterable) THEN iterable
    ELSE IF \E k \in DOMAIN results : IsRaise(results[k])
    THEN results[CHOOSE k \in DOMAIN results :
                    IsRaise(results[k]) /\ \A j \in 1..(k - 1) : ~IsRaise(results[j])]
    ELSE PyList(results)

_convert_sg_issues(result) ==
    IF result.type # "dict" THEN Raise("AttributeError")
    ELSE LET items == iterate(get(result, "issues", PyList(<<>>)))
         IN  collect(items, IF IsRaise(items) THEN <<>>
                            ELSE [k \in DOMAIN items.v |-> sg_issue(items.v[k])])

\* the body of the second loop of _convert_content_issues, for one item
content_issue(item) ==
    IF item.type # "dict" THEN Raise("AttributeError")
    ELSE LET category == lookup(enum_table({"missing_content", "style", "formatting"}),
                                get(item, "category", PyStr(<<>>)), "style")
             severity == lookup(enum_table({"critical", "high", "medium", "low"}),
                                get(item, "severity", PyStr(S("medium"))), "medium")
         IN  IF IsRaise(category) THEN category
             ELSE IF IsRaise(severity) THEN severity
             ELSE Issue(category.v, severity.v,
                        get(item, "title", PyStr(S("Content issue"))),
                        get(item, "description", PyStr(<<>>)),
                        get(item, "location", PyNone),
                        PyNone,
                        get(item, "suggestion", PyNone),
                        get(item, "affects_score", PyBool(severity.v # "low")))

_convert_content_issues(result) ==
    IF result.type # "dict" THEN Raise("AttributeError")
    ELSE LET sections == iterate(get(result, "required_sections_missing", PyList(<<>>)))
             missing == collect(sections, IF IsRaise(sections) THEN <<>> ELSE
                 [k \in DOMAIN sections.v |->
                     Issue("missing_content", "high",
                           PyStr(S("Missing section: ") \o py_str(sections.v[k])),
                           PyStr(S("Required section '") \o py_str(sections.v[k])
                                     \o S("' was not found in the document")),
                           PyNone, PyNone,
                           PyStr(S("Add a section for ") \o py_str(sections.v[k])),
                           PyBool(TRUE))])
             items == iterate(get(result, "issues", PyList(<<>>)))
             other == collect(items, IF IsRaise(items) THEN <<>> ELSE
                 [k \in DOMAIN items.v |-> content_issue(items.v[k])])
             observations == iterate(get(result, "style_observations", PyList(<<>>)))
             style == collect(observations, IF IsRaise(observations) THEN <<>> ELSE
                 [k \in DOMAIN observations.v |->
                     Issue("style", "info", PyStr(S("Style observation")),
                           observations.v[k], PyNone, PyNone, PyNone, PyBool(FALSE))])
         IN  IF IsRaise(missing) THEN missing
             ELSE IF IsRaise(other) THEN other
             ELSE IF IsRaise(style) THEN style
             ELSE PyList(missing.v \o other.v \o style.v)

score_start == 100

sg_penalty == 5

content_penalty == 15

\* _calculate_score without the floor of max(0, ...)
_calculate_score_unfloored(issues) ==
    LET spelling_grammar_issues ==
            Cardinality({k \in DOMAIN issues :
                /\ issues[k].category \in {"spelling", "grammar", "spacing"}
                /\ issues[k].affects_score})
        missing_content_issues ==
            Cardinality({k \in DOMAIN issues :
                /\ issues[k].category = "missing_content"
                /\ issues[k].affects_score})
    IN  ScoreBreakdown(score_start - spelling_grammar_issues * sg_penalty,
                       score_start - missing_content_issues * content_penalty,
                       score_start)

\* _calculate_score(issues, sg_result, content_result); the two results are
\* not read
_calculate_score(issues) ==
    LET spelling_grammar_issues ==
            Cardinality({k \in DOMAIN issues :
                /\ issues[k].category \in {"spelling", "grammar", "spacing"}
                /\ issues[k].affects_score})
        missing_content_issues ==
            Cardinality({k \in DOMAIN issues :
                /\ issues[k].category = "missing_content"
                /\ issues[k].affects_score})
        sg_score == Max({0, score_start - spelling_grammar_issues * sg_penalty})
        content_score == Max({0, score_start - missing_content_issues * content_penalty})
        math_score == score_start
    IN  ScoreBreakdown(sg_score, content_score, math_score)


\* result.get(key, {}).get(name, default) as _convert_bannt reads it
bannt_get(result, key, name, default) ==
    LET data == get(result, key, PyDict(<<>>))
    IN  IF data.type # "dict" THEN Raise("AttributeError") ELSE get(data, name, default)

_convert_bannt(result) ==
    IF result.type # "dict" THEN Raise("AttributeError")
    ELSE LET read == <<bannt_get(result, "budget", "discussed", PyBool(FALSE)),
                       bannt_get(result, "budget", "notes", PyStr(<<>>)),
                       bannt_get(result, "authority", "identified", PyBool(FALSE)),
                       bannt_get(result, "authority", "notes", PyStr(<<>>)),
                       bannt_get(result, "need", "articulated", PyBool(FALSE)),
                       bannt_get(result, "need", "notes", PyStr(<<>>)),
                       bannt_get(result, "next_steps", "scheduled", PyBool(FALSE)),
                       bannt_get(result, "next_steps", "notes", PyStr(<<>>)),
                       bannt_get(result, "timeline", "discussed", PyBool(FALSE)),
                       bannt_get(result, "timeline", "notes", PyStr(<<>>))>>
         IN  IF \E k \in DOMAIN read : IsRaise(read[k]) THEN Raise("AttributeError")
             ELSE BANNTScore(read[1], read[2], read[3], read[4], read[5],
                             read[6], read[7], read[8], read[9], read[10])

bannt_elements ==
    <<<<"budget", "Budget not discussed">>,
      <<"authority", "Decision maker not identified">>,
      <<"need", "Pain points not articulated">>,
      <<"next_steps", "No follow-up scheduled">>,
      <<"timeline", "Timeline not discussed">>>>

\* the body of the first loop of _bannt_to_issues, for one element: the list
\* of the zero or one issues it appends
bannt_gap(result, key, title) ==
    LET data == get(result, key, PyDict(<<>>))
    IN  IF data.type # "dict" THEN Raise("AttributeError")
        ELSE LET is_ok == \/ truthy(get(data, "discussed", PyBool(FALSE)))
                          \/ truthy(get(data, "identified", PyBool(FALSE)))
                          \/ truthy(get(data, "articulated", PyBool(FALSE)))
                          \/ truthy(get(data, "scheduled", PyBool(FALSE)))
                 gap == Issue("bannt", "medium", PyStr(S(title)),
                              get(data, "notes", PyStr(S("Not covered in call"))),
                              PyNone, PyNone, PyNone, PyBool(FALSE))
             IN  IF is_ok THEN PyList(<<>>)
                 ELSE IF IsRaise(gap) THEN gap
                 ELSE PyList(<<gap>>)

_bannt_to_issues(result) ==
    IF result.type # "dict" THEN Raise("AttributeError")
    ELSE LET gaps == collect(PyList(<<>>),
                 [k \in DOMAIN bannt_elements |->
                     bannt_gap(result, bannt_elements[k][1], bannt_elements[k][2])])
             recs == iterate(get(result, "recommendations", PyList(<<>>)))
             recommendations == collect(recs, IF IsRaise(recs) THEN <<>> ELSE
                 [k \in DOMAIN recs.v |->
                     Issue("bannt", "info", PyStr(S("Recommendation")), recs.v[k],
                           PyNone, PyNone, PyNone, PyBool(FALSE))])
             flat[k \in 0..Len(bannt_elements)] ==
                 IF k = 0 THEN <<>> ELSE flat[k - 1] \o gaps.v[k].v
         IN  IF IsRaise(gaps) THEN gaps
             ELSE IF IsRaise(recommendations) THEN recommendations
             ELSE PyList(flat[Len(bannt_elements)] \o recommendations.v)

\* the body of the first loop of _convert_client_call_issues, for one item
opportunity_issue(opp) ==
    IF opp.type # "dict" THEN Raise("AttributeError")
    ELSE Issue("opportunity", "info",
               PyStr(S("Opportunity: ") \o py_str(get(opp, "type", PyStr(S("unknown"))))),
               get(opp, "description", PyStr(<<>>)),
               get(opp, "timestamp", PyNone),
               get(opp, "quote", PyNone),
               PyNone, PyBool(FALSE))

\* the body of its second loop, for one item
concern_issue(concern) ==
    IF concern.type # "dict" THEN Raise("AttributeError")
    ELSE LET severity == lookup(enum_table({"critical", "high", "medium", "low"}),
                                get(concern, "severity", PyStr(S("medium"))), "medium")
         IN  IF IsRaise(severity) THEN severity
             ELSE Issue("concern", severity.v,
                        PyStr(S("Concern: ")
                                  \o py_str(get(concern, "type", PyStr(S("unknown"))))),
                        get(concern, "description", PyStr(<<>>)),
                        get(concern, "timestamp", PyNone),
                        get(concern, "quote", PyNone),
                        get(concern, "recommended_action", PyNone),
                        PyBool(FALSE))

_convert_client_call_issues(result) ==
    IF result.type # "dict" THEN Raise("AttributeError")
    ELSE LET opps == iterate(get(result, "opportunities", PyList(<<>>)))
             opportunities == collect(opps, IF IsRaise(opps) THEN <<>> ELSE
                 [k \in DOMAIN opps.v |-> opportunity_issue(opps.v[k])])
             cons == iterate(get(result, "concerns", PyList(<<>>)))
             concerns == collect(cons, IF IsRaise(cons) THEN <<>> ELSE
                 [k \in DOMAIN cons.v |-> concern_issue(cons.v[k])])
         IN  IF IsRaise(opportunities) THEN opportunities
             ELSE IF IsRaise(concerns) THEN concerns
             ELSE PyList(opportunities.v \o concerns.v)

_infer_slides_type(url) ==
    IF Contains(Lower(url), S("kickoff")) \/ Contains(Lower(url), S("kick-off"))
    THEN S("kickoff") ELSE S("proposal")

AnalysisResult(document_url, document_title, document_type, score, bannt_score, issues, text_length) ==
    [type |-> "AnalysisResult", document_url |-> document_url,
     document_title |-> document_title, document_type |-> document_type,
     score |-> score, bannt_score |-> bannt_score, issues |-> issues,
     text_length |-> text_length]

llm_char_limit == 30000

\* the characters of the id of a document or a presentation: [a-zA-Z0-9_-]
IdChars == Range(LowerLetters) \cup Range(UpperLetters) \cup Range(Digits) \cup {"_", "-"}

\* re.search(prefix + r"([a-zA-Z0-9_-]+)", url): group 1 of the leftmost match,
\* or None
search_id(url, prefix) ==
    LET starts == {i \in 0..(Len(url) - Len(prefix) - 1) :
                      StartsAt(url, i, prefix) /\ At(url, i + Len(prefix)) \in IdChars}
        first == CHOOSE i \in starts : \A j \in starts : i <= j
    IN  IF starts = {} THEN None
        ELSE Slice(url, first + Len(prefix), RunEnd(url, first + Len(prefix), IdChars))

\* re.search(r"^([a-zA-Z0-9_-]+)$", url): group 1 or None; $ also matches
\* before a newline that ends the url
whole_id(url) ==
    LET id == IF url # <<>> /\ url[Len(url)] = NL THEN Slice(url, 0, Len(url) - 1) ELSE url
    IN  IF id # <<>> /\ \A k \in DOMAIN id : id[k] \in IdChars THEN id ELSE None

\* GoogleDocsExtractor._extract_id(url) for the kind "document" and
\* GoogleSlidesExtractor._extract_id(url) for the kind "presentation"
_extract_id(url, kind) ==
    IF search_id(url, S("/") \o S(kind) \o S("/d/")) # None
    THEN PyStr(search_id(url, S("/") \o S(kind) \o S("/d/")))
    ELSE IF search_id(url, S("/d/")) # None THEN PyStr(search_id(url, S("/d/")))
    ELSE IF whole_id(url) # None THEN PyStr(whole_id(url))
    ELSE Raise("ValueError")

\* the API answers a request with HttpError(status)
HttpError(status) == [type |-> "HttpError", status |-> status]

not_found == 404

forbidden == 403

\* extract_text(url) of an authenticated extractor: answer is what the API
\* answers the request for the document, an HttpError or the document; of a
\* document it is given as the dictionary extract_text builds from it, with
\* its title and full_text
extract_text(url, kind, answer) ==
    IF IsRaise(_extract_id(url, kind)) THEN _extract_id(url, kind)
    ELSE IF answer.type = "HttpError"
    THEN (IF answer.status = not_found THEN Raise("ValueError")
          ELSE IF answer.status = forbidden THEN Raise("PermissionError")
          ELSE Raise("HttpError"))
    ELSE answer

\* the extractor analyze_url chooses for a url it supports
extractor_kind(url) ==
    IF Contains(url, S("/presentation/")) THEN "presentation" ELSE "document"

\* analyze_url(url, doc_type): doc_type is None or the str of a DocumentType;
\* auth is what extractor.authenticate() returns or raises (it raises
\* FileNotFoundError without a token and a credentials file); answer is what
\* the API answers extract_text's request; sg_reply and content_reply are the
\* replies of the LLM provider to the two prompts.  The time of the analysis
\* and the provider's name are left out of the result.  The call is made with
\* depth frames on the stack, few enough to leave the extractor, the provider
\* and the model classes the room they need; _parse_json is called by a method
\* of the LLMAnalyzer that analyze_url calls.
analyze_url(url, doc_type, auth, answer, sg_reply, content_reply, depth) ==
    IF ~Contains(url, S("/presentation/")) /\ ~Contains(url, S("/document/"))
    THEN Raise("ValueError")
    ELSE LET document_type ==
                 IF doc_type # PyNone THEN doc_type.v
                 ELSE IF Contains(url, S("/presentation/")) THEN _infer_slides_type(url)
                 ELSE S("proposal")
             extracted == extract_text(url, extractor_kind(url), answer)
             sg_result == _parse_json(sg_reply, depth + 2)
             sg_issues == _convert_sg_issues(sg_result)
             content_result == _parse_json(content_reply, depth + 2)
             content_issues == _convert_content_issues(content_result)
         IN  IF IsRaise(auth) THEN auth
             ELSE IF IsRaise(extracted) THEN extracted
             ELSE IF IsRaise(sg_result) THEN sg_result
             ELSE IF IsRaise(sg_issues) THEN sg_issues
             ELSE IF IsRaise(content_result) THEN content_result
             ELSE IF IsRaise(content_issues) THEN content_issues
             ELSE LET issues == sg_issues.v \o content_issues.v
                      score == _calculate_score(issues)
                  IN  IF IsRaise(score) THEN score
                      ELSE AnalysisResult(url, extracted.title, document_type, score, PyNone,
                                          issues, Len(extracted.full_text))

\* analyze_transcript(transcript, is_sales_call, title): reply is the reply of
\* the LLM provider; depth is as in analyze_url
analyze_transcript(transcript, is_sales_call, title, reply, depth) ==
    LET result == _parse_json(reply, depth + 2)
    IN  IF IsRaise(result) THEN result
        ELSE IF is_sales_call THEN
            LET bannt_score == _convert_bannt(result)
                issues == _bannt_to_issues(result)
            IN  IF IsRaise(bannt_score) THEN bannt_score
                ELSE IF IsRaise(issues) THEN issues
                ELSE AnalysisResult(S("transcript"), title, S("transcript_sales"), PyNone,
                                    bannt_score, issues.v, Len(transcript))
        ELSE
            LET issues == _convert_client_call_issues(result)
            IN  IF IsRaise(issues) THEN issues
                ELSE AnalysisResult(S("transcript"), title, S("transcript_client"), PyNone,
                                    PyNone, issues.v, Len(transcript))

----------------------------------------------------------------------------
(* The state machine of a QualityAnalyzer: calls of analyze_url, of           *)
(* analyze_transcript and of the methods they are made of.  The extractor and *)
(* the LLM provider are services outside the program: what they answer is an  *)
(* input of the call, and while a call waits for an answer the call of the    *)
(* other caller may run.                                                      *)

Urls ==
    {S("https://docs.google.com/document/d/1"),
     S("https://docs.google.com/presentation/d/Kickoff"),
     S("https://docs.google.com/document/edit"),
     S("https://example.com/x")}

DocTypes == {PyNone, PyStr(S("kickoff"))}

\* what authenticate() returns or raises
Auths == <<PyBool(TRUE), Raise("FileNotFoundError")>>

server_error == 500

\* what the API answers: a document, given as the dictionary extract_text
\* builds from it, or an error
Answers ==
    <<[type |-> "dict", full_text |-> S("Hello  world"), title |-> S("Plan")],
      [type |-> "dict", full_text |-> S("All good."), title |-> S("Untitled")],
      HttpError(not_found), HttpError(forbidden), HttpError(server_error)>>

Fenced(s) == S("Here it is:") \o <<NL>> \o code_fence \o S("json") \o <<NL>> \o s
                \o <<NL>> \o code_fence

\* replies to the spelling and grammar prompt
SgReplies ==
    {PyStr(S("{}")),
     PyStr(S("{\"issues\": [{\"category\": \"spelling\", \"severity\": \"low\", \"text\": \"teh\"}]}")),
     PyStr(S("{\"issues\": [{\"category\": \"grammar\", \"severity\": \"high\", \"text\": \"they is\", \"location\": \"p2\", \"suggestion\": \"they are\"}, {\"category\": \"spacing\"}]}")),
     PyStr(Fenced(S("{\"issues\": [{\"severity\": \"medium\", \"text\": \"recieve\"}]}"))),
     PyStr(S("I could not read the document.")),
     PyStr(S("[]")),
     PyStr(S("null")),
     PyStr(S("{\"issues\": null}")),
     PyNone}

\* replies to the content prompt
ContentReplies ==
    {PyStr(S("{}")),
     PyStr(S("{\"required_sections_missing\": [\"Budget\"], \"issues\": [{\"category\": \"style\", \"severity\": \"low\", \"affects_score\": true, \"title\": \"Tone\"}], \"style_observations\": [\"Long sentences\"]}")),
     PyStr(S("{\"issues\": [{\"category\": \"missing_content\", \"severity\": \"low\"}, {\"category\": \"missing_content\", \"severity\": \"high\", \"title\": \"No pricing\"}]}")),
     PyStr(Fenced(S("{\"issues\": [{\"category\": \"formatting\", \"severity\": \"critical\"}]}"))),
     PyStr(S("{\"issues\": [")),
     PyStr(S("3"))}

\* the frames on the stack when _parse_json is called: those of a script that
\* calls analyze_url, and a stack that leaves room for the parser but not for
\* a container inside a container inside a container
ParseDepths == {3, 993}

\* the frames on the stack when analyze_url or analyze_transcript is called by
\* a script
call_depth == 1


\* The call of caller c that is as before runs until it is as after: until it
\* waits for the answer to its next request, or until it returns or raises
\* and becomes the last call.  Between two steps of a call the other caller's
\* call may run.
Proceeds(c, before, after) ==
    /\ calls[c].at = before.at
    /\ calls[c] = before
    /\ IF after.at = "returned"
       THEN /\ pc' = "returned"
            /\ op' = after.op
            /\ text' = after.text
            /\ args' = after.args
            /\ outcome' = after.outcome
            /\ calls' = [calls EXCEPT ![c] = Over]
       ELSE /\ calls' = [calls EXCEPT ![c] = after]
            /\ UNCHANGED <<pc, op, text, args, outcome>>
    /\ UNCHANGED <<disabled_rules, ctor, earlier, idx, matches>>

\* _parse_json(response) called with depth frames on the stack
parse_json_returned(response, depth) ==
    Frame("returned", "_parse_json", <<>>, [response |-> response, depth |-> depth],
          _parse_json(response, depth))

\* caller c calls _parse_json(response)
ParseJson(c, response, depth) == Proceeds(c, NotCalled, parse_json_returned(response, depth))

\* The call analyze_url(url, doc_type) up to extractor.authenticate().  The
\* args of the call hold its arguments and, as far as the call got, what the
\* services were asked and answered: auth the answers of authenticate(),
\* requested the ids extract_text asked the API for, answer the API's answers,
\* sent the texts sent to the LLM provider and replies its replies; its text
\* is the full text of the document once it is extracted, and empty before.
url_called(url, doc_type) ==
    LET a == [url |-> url, doc_type |-> doc_type, auth |-> <<>>, requested |-> <<>>,
              answer |-> <<>>, sent |-> <<>>, replies |-> <<>>]
    IN  IF ~Contains(url, S("/presentation/")) /\ ~Contains(url, S("/document/"))
        THEN Frame("returned", "analyze_url", <<>>, a, Raise("ValueError"))
        ELSE Frame("authenticate", "analyze_url", <<>>, a, <<>>)

\* the call when authenticate() has returned or raised auth: extract_text(url)
\* has run up to its request to the API
url_authenticated(url, doc_type, auth) ==
    LET a == [url_called(url, doc_type).args EXCEPT !.auth = <<auth>>]
        id == _extract_id(url, extractor_kind(url))
    IN  IF IsRaise(auth) THEN Frame("returned", "analyze_url", <<>>, a, auth)
        ELSE IF IsRaise(id) THEN Frame("returned", "analyze_url", <<>>, a, id)
        ELSE Frame("extract_text", "analyze_url", <<>>, [a EXCEPT !.requested = <<id.v>>], <<>>)

\* the call, authenticated, when the API has answered the request of
\* extract_text: it has run up to the request of analyze_spelling_grammar
url_extracted(url, doc_type, answer) ==
    LET a == [url_authenticated(url, doc_type, PyBool(TRUE)).args EXCEPT !.answer = <<answer>>]
        extracted == extract_text(url, extractor_kind(url), answer)
    IN  IF IsRaise(extracted) THEN Frame("returned", "analyze_url", <<>>, a, extracted)
        ELSE Frame("analyze_spelling_grammar", "analyze_url", extracted.full_text,
                   [a EXCEPT !.sent = <<Slice(extracted.full_text, 0, llm_char_limit)>>], <<>>)

\* the call when the provider has replied sg_reply to the spelling and grammar
\* prompt: it has run up to the request of analyze_content
url_checked(url, doc_type, answer, sg_reply) ==
    LET before == url_extracted(url, doc_type, answer)
        a == [before.args EXCEPT !.replies = <<sg_reply>>]
        sg_result == _parse_json(sg_reply, call_depth + 2)
    IN  IF IsRaise(sg_result) THEN Frame("returned", "analyze_url", before.text, a, sg_result)
        ELSE IF IsRaise(_convert_sg_issues(sg_result))
        THEN Frame("returned", "analyze_url", before.text, a, _convert_sg_issues(sg_result))
        ELSE Frame("analyze_content", "analyze_url", before.text,
                   [a EXCEPT !.sent = @ \o <<Slice(before.text, 0, llm_char_limit)>>], <<>>)

\* the call when the provider has replied content_reply to the content prompt:
\* it has run to its end
url_analyzed(url, doc_type, answer, sg_reply, content_reply) ==
    LET before == url_checked(url, doc_type, answer, sg_reply)
    IN  Frame("returned", "analyze_url", before.text,
              [before.args EXCEPT !.replies = @ \o <<content_reply>>],
              analyze_url(url, doc_type, PyBool(TRUE), answer, sg_reply, content_reply,
                          call_depth))

\* caller c calls analyze_url(url, doc_type)
AnalyzeUrl(c, url, doc_type) == Proceeds(c, NotCalled, url_called(url, doc_type))

\* extractor.authenticate() returns or raises in the call of caller c
Authenticate(c, url, doc_type, auth) ==
    Proceeds(c, url_called(url, doc_type), url_authenticated(url, doc_type, auth))

\* the API answers the request of extract_text in the call of caller c
ExtractText(c, url, doc_type, answer) ==
    Proceeds(c, url_authenticated(url, doc_type, PyBool(TRUE)), url_extracted(url, doc_type, answer))

\* the provider replies to the spelling and grammar prompt of the call of
\* caller c
AnalyzeSpellingGrammar(c, url, doc_type, answer, sg_reply) ==
    Proceeds(c, url_extracted(url, doc_type, answer), url_checked(url, doc_type, answer, sg_reply))

\* the provider replies to the content prompt of the call of caller c
AnalyzeContent(c, url, doc_type, answer, sg_reply, content_reply) ==
    Proceeds(c, url_checked(url, doc_type, answer, sg_reply),
         url_analyzed(url, doc_type, answer, sg_reply, content_reply))

\* the call analyze_transcript(transcript, is_sales_call, title) up to the
\* request of analyze_bannt or of analyze_client_call to the LLM provider;
\* sent is the text sent
transcript_called(transcript, is_sales_call, title) ==
    Frame(IF is_sales_call THEN "analyze_bannt" ELSE "analyze_client_call",
          "analyze_transcript", transcript,
          [is_sales_call |-> is_sales_call, title |-> title,
           sent |-> Slice(transcript, 0, llm_char_limit)], <<>>)

\* the call when the provider has replied: it has run to its end
transcript_analyzed(transcript, is_sales_call, title, reply) ==
    Frame("returned", "analyze_transcript", transcript,
          [is_sales_call |-> is_sales_call, title |-> title,
           sent |-> Slice(transcript, 0, llm_char_limit), reply |-> reply],
          analyze_transcript(transcript, is_sales_call, title, reply, call_depth))

\* caller c calls analyze_transcript(transcript, is_sales_call, title)
AnalyzeTranscript(c, transcript, is_sales_call, title) ==
    Proceeds(c, NotCalled, transcript_called(transcript, is_sales_call, title))

\* the provider replies to the BANNT prompt of the call of caller c
AnalyzeBannt(c, transcript, title, reply) ==
    Proceeds(c, transcript_called(transcript, TRUE, title),
         transcript_analyzed(transcript, TRUE, title, reply))

\* the provider replies to the client call prompt of the call of caller c
AnalyzeClientCall(c, transcript, title, reply) ==
    Proceeds(c, transcript_called(transcript, FALSE, title),
         transcript_analyzed(transcript, FALSE, title, reply))

\* the steps of a call of analyze_url by caller c, with the replies given
UrlSteps(c, sg_replies, content_replies) ==
    \/ \E url \in Urls, doc_type \in DocTypes : AnalyzeUrl(c, url, doc_type)
    \/ \E url \in Urls, doc_type \in DocTypes, i \in DOMAIN Auths :
            Authenticate(c, url, doc_type, Auths[i])
    \/ \E url \in Urls, doc_type \in DocTypes, j \in DOMAIN Answers :
            ExtractText(c, url, doc_type, Answers[j])
    \/ \E url \in Urls, doc_type \in DocTypes, j \in DOMAIN Answers, sg_reply \in sg_replies :
            AnalyzeSpellingGrammar(c, url, doc_type, Answers[j], sg_reply)
    \/ \E url \in Urls, doc_type \in DocTypes, j \in DOMAIN Answers, sg_reply \in sg_replies,
          content_reply \in content_replies :
            AnalyzeContent(c, url, doc_type, Answers[j], sg_reply, content_reply)

\* the steps of a call of analyze_transcript by caller c, with the replies given
TranscriptSteps(c, transcripts, replies) ==
    \/ \E transcript \in transcripts, is_sales_call \in BOOLEAN :
            AnalyzeTranscript(c, transcript, is_sales_call, S("Call Transcript"))
    \/ \E transcript \in transcripts, reply \in replies :
            AnalyzeBannt(c, transcript, S("Call Transcript"), reply)
    \/ \E transcript \in transcripts, reply \in replies :
            AnalyzeClientCall(c, transcript, S("Call Transcript"), reply)

\* Caller A calls analyze_url, with every reply; next to it caller B calls
\* _parse_json, analyze_url or analyze_transcript.
NextUrl ==
    \/ UrlSteps("A", SgReplies, ContentReplies)
    \/ \E response \in SgReplies \cup ContentReplies, depth \in ParseDepths :
            ParseJson("B", response, depth)
    \/ UrlSteps("B", {PyStr(S("{}"))}, {PyStr(S("{}"))})
    \/ TranscriptSteps("B", {S("A: Hello.")}, {PyStr(S("{}"))})

SpecUrl == InitDefault /\ [][NextUrl]_vars

\* the last call returned a value of the given type, not an exception
ReturnedA(method, type) == Returned(method) /\ outcome.type = type

----------------------------------------------------------------------------
(* C22: rule findings in the result of analyze_url *)

\* issue i reports the rule match m
ReportsMatch(i, m) ==
    /\ i.category = m.category
    /\ i.severity = m.severity
    /\ i.location = m.location
    /\ i.suggestion = m.suggestion

\* C22: the issue list analyze_url returns contains the findings of the
\* deterministic rule checks on the extracted text, next to the issues derived
\* from the LLM's replies.
C22_RuleFindingsInIssues ==
    ReturnedA("analyze_url", "AnalysisResult") =>
        \A k \in DOMAIN check_all({}, text) :
            \E j \in DOMAIN outcome.issues :
                ReportsMatch(outcome.issues[j], check_all({}, text)[k])

----------------------------------------------------------------------------
(* C23: low and info issues and the score *)

\* C23: the score of the issue list analyze_url returns is the score of that
\* list without its issues of severity low or info.
C23_LowAndInfoDoNotScore ==
    ReturnedA("analyze_url", "AnalysisResult") =>
        outcome.score =
            _calculate_score(SelectSeq(outcome.issues,
                                       LAMBDA i : i.severity \notin {"low", "info"}))

----------------------------------------------------------------------------
(* C24: the three components of the score *)

MaxSpellingIssues == 22

MaxMissingIssues == 8

MaxOtherIssues == 3

SgCategories == <<"spelling", "grammar", "spacing">>

\* categories and affects_score of issues that neither count does count
OtherKinds ==
    <<[category |-> "style", affects_score |-> TRUE],
      [category |-> "spelling", affects_score |-> FALSE],
      [category |-> "missing_content", affects_score |-> FALSE]>>

\* an issue list with n score-affecting issues of spelling, grammar or
\* spacing, m score-affecting missing-content issues and k other issues
ScoreIssues(n, m, k) ==
    [i \in 1..n |-> Issue(SgCategories[((i - 1) % 3) + 1], "medium", PyStr(S("Typo")),
                          PyStr(S("Found")), PyNone, PyNone, PyNone, PyBool(TRUE))]
    \o [i \in 1..k |-> Issue(OtherKinds[((i - 1) % 3) + 1].category, "low",
                             PyStr(S("Note")), PyStr(<<>>), PyNone, PyNone, PyNone,
                             PyBool(OtherKinds[((i - 1) % 3) + 1].affects_score))]
    \o [i \in 1..m |-> Issue("missing_content", "high", PyStr(S("Missing section: Budget")),
                             PyStr(<<>>), PyNone, PyNone, PyNone, PyBool(TRUE))]

CalculateScore(issues) ==
    Invoke("_calculate_score", <<>>, [issues |-> issues], _calculate_score(issues))

NextScore ==
    \E n \in 0..MaxSpellingIssues, m \in 0..MaxMissingIssues, k \in 0..MaxOtherIssues :
        CalculateScore(ScoreIssues(n, m, k))

SpecScore == InitDefault /\ [][NextScore]_vars

\* the issues of a list that affect the score and have one of the categories
Scoring(issues, categories) ==
    SelectSeq(issues, LAMBDA i : i.affects_score /\ i.category \in categories)

\* C24: _calculate_score returns a ScoreBreakdown, never a validation error,
\* whose spelling_grammar is 100 - 5n floored at 0 for the n score-affecting
\* spelling, grammar and spacing issues, whose required_content is 100 - 15m
\* floored at 0 for the m score-affecting missing-content issues and whose
\* math_accuracy is 100; each component lies in 0..100.
C24_ScoreComponents ==
    Returned("_calculate_score") =>
        LET n == Len(Scoring(args.issues, {"spelling", "grammar", "spacing"}))
            m == Len(Scoring(args.issues, {"missing_content"}))
        IN  /\ outcome.type = "ScoreBreakdown"
            /\ outcome.spelling_grammar = (IF 5 * n > 100 THEN 0 ELSE 100 - 5 * n)
            /\ outcome.required_content = (IF 15 * m > 100 THEN 0 ELSE 100 - 15 * m)
            /\ outcome.math_accuracy = 100
            /\ \A c \in {"spelling_grammar", "required_content", "math_accuracy"} :
                    outcome[c] \in 0..100

\* more than twenty spelling issues and more than six missing sections, next
\* to issues that do not count: both components are floored at 0
C24_Witness ==
    /\ Returned("_calculate_score")
    /\ Len(Scoring(args.issues, {"spelling", "grammar", "spacing"})) > 20
    /\ Len(Scoring(args.issues, {"missing_content"})) > 6
    /\ Len(args.issues) > 20 + 6 + 2
    /\ outcome.type = "ScoreBreakdown"
    /\ outcome.spelling_grammar = 0
    /\ outcome.required_content = 0

----------------------------------------------------------------------------
(* C29: the BANNT score and the gap issues of a sales call *)

\* the flag that BANNT_PROMPT names for each element, in the order of
\* bannt_elements, and a flag it names for another element
OwnFlag == <<"discussed", "identified", "articulated", "scheduled", "discussed">>

OtherFlag == <<"identified", "discussed", "scheduled", "articulated", "identified">>

\* what a reply says about one element
ElementOptions == {"covered", "not covered", "other flag", "absent"}

Quoted(name) == <<DQ>> \o S(name) \o <<DQ>>

\* the member of the reply's object for element k, with the separator before it
ElementReply(k, option) ==
    LET entry(flag, value) ==
            S(", ") \o Quoted(bannt_elements[k][1]) \o S(": {") \o Quoted(flag)
                \o S(": ") \o S(value) \o S("}")
    IN  CASE option = "covered" -> entry(OwnFlag[k], "true")
          [] option = "not covered" -> entry(OwnFlag[k], "false")
          [] option = "other flag" -> entry(OtherFlag[k], "true")
          [] option = "absent" -> <<>>

\* the reply that says options[k] about element k
BanntReply(options) ==
    LET members[k \in 0..Len(bannt_elements)] ==
            IF k = 0 THEN <<>> ELSE members[k - 1] \o ElementReply(k, options[k])
        all == members[Len(bannt_elements)]
    IN  PyStr(S("{") \o Slice(all, 2, Len(all)) \o S("}"))

\* replies to the BANNT prompt and to the client call prompt
TranscriptReplies ==
    {BanntReply(options) : options \in [DOMAIN bannt_elements -> ElementOptions]}
    \cup {PyStr(S("{\"budget\": {\"discussed\": true, \"notes\": \"50k\"}, \"need\": {\"notes\": \"unclear\"}, \"recommendations\": [\"Ask about timing\"]}")),
          PyStr(S("{\"opportunities\": [{\"type\": \"upsell\", \"description\": \"More seats\"}], \"concerns\": [{\"type\": \"churn\", \"severity\": \"high\", \"quote\": \"too slow\"}]}")),
          PyStr(S("{\"budget\": null}")),
          PyStr(S("no JSON here"))}

Transcripts == {S("A: Hello.") \o <<NL>> \o S("B: Hi, what does it cost?")}

\* Caller A calls analyze_transcript, with every reply; next to it caller B
\* calls analyze_transcript or analyze_url.
NextTranscript ==
    \/ TranscriptSteps("A", Transcripts, TranscriptReplies)
    \/ TranscriptSteps("B", {S("B: Hi.")}, {PyStr(S("{}"))})
    \/ UrlSteps("B", {PyStr(S("{}"))}, {PyStr(S("{}"))})

SpecTranscript == InitDefault /\ [][NextTranscript]_vars

\* the medium-severity BANNT issues of a list: its gap issues
GapIssues(issues) ==
    SelectSeq(issues, LAMBDA i : i.category = "bannt" /\ i.severity = "medium")

\* C29: in the result of a sales call each of the five BANNT elements is true
\* in the BANNTScore or has a gap issue in the issue list, never both and
\* never neither, so the BANNT score and the number of gap issues add up to 5.
C29_ScoredOrGap ==
    (ReturnedA("analyze_transcript", "AnalysisResult") /\ args.is_sales_call) =>
        /\ \A k \in DOMAIN bannt_elements :
                outcome.bannt_score[bannt_elements[k][1]]
                    # (\E j \in DOMAIN GapIssues(outcome.issues) :
                            GapIssues(outcome.issues)[j].title = S(bannt_elements[k][2]))
        /\ bannt_score_of(outcome.bannt_score) + Len(GapIssues(outcome.issues)) = 5

----------------------------------------------------------------------------
(* C30: _parse_json and the converters on every reply string *)

\* the reply is a string that json.loads does not accept
Unparsable(reply) ==
    /\ reply.type = "str"
    /\ _parse_json(reply, call_depth + 2).type = "dict"
    /\ HasKey(_parse_json(reply, call_depth + 2), S("error"))
    /\ HasKey(_parse_json(reply, call_depth + 2), S("raw"))

\* C30: for every reply string _parse_json returns a dictionary and raises
\* nothing; analyze_url therefore returns a result whenever the replies it
\* received from the provider are strings, and replies that cannot be parsed
\* add no issue to it.
C30_RepliesNeverFail ==
    /\ (Returned("_parse_json") /\ args.response.type = "str") => outcome.type = "dict"
    /\ (/\ Returned("analyze_url")
        /\ args.replies # <<>>
        /\ \A k \in DOMAIN args.replies : args.replies[k].type = "str") =>
            /\ outcome.type = "AnalysisResult"
            /\ (\A k \in DOMAIN args.replies : Unparsable(args.replies[k])) =>
                    outcome.issues = <<>>

====
